---- MODULE Spec2Model ----
(***************************************************************************)
(* Manuscript-review: the review core of src/src/reviewer.py, the rulebook *)
(* loader, parser and lexical vectorizer of src/src/rule_processor.py,     *)
(* the entry points of src/src/core_logic.py and src/main.py, and the      *)
(* /review route of src/app.py.                                            *)
(*                                                                         *)
(* A Python str is modelled as a sequence of characters.  A character is   *)
(* a one-character string for printable ASCII, "\n" and "\t", and the      *)
(* name "uXXXX" of its code point otherwise; OrdTable is Python's ord().   *)
(* A float that holds an integer value is modelled as that integer.        *)
(* None is modelled per type: None for an optional str, NoVector for an    *)
(* optional vector, NoCredentials for the optional credentials dict.       *)
(***************************************************************************)
EXTENDS Integers, Sequences, FiniteSets, TLC

VARIABLES
    pc,                  \* position of the running call ("idle" between calls)
    op,                  \* the function called last
    text,                \* get_mock_vector: its argument
    mock_vector,         \* get_mock_vector: the vector it returned
    job_post_vector,     \* simulate_rag_retrieval argument / perform_review local
    rulebook_vector_db,  \* simulate_rag_retrieval and perform_review argument
    num_relevant_rules,  \* simulate_rag_retrieval argument
    relevant_rules_texts,\* simulate_rag_retrieval local
    posting,             \* perform_review: the six posting arguments
    text_for_rag,        \* perform_review local
    retrieved_rules_text,\* perform_review local
    assembled_prompt,    \* perform_review local
    environ,             \* os.environ as read by get_azure_openai_credentials
    azure_credentials,   \* perform_review local
    client,              \* what the Azure OpenAI client did when it was called
    actual_llm_response, \* perform_review local
    review_result,       \* perform_review local
    llm_calls,           \* calls of call_actual_llm_api made by the running review
    sim_calls,           \* calls of simulate_ai_call made by the running review
    raised,              \* the exception that left the call, or "none"
    ret,                 \* the value the last call returned
    rulebook_content,    \* parse_rulebook_to_chunks argument
    lines,               \* parse_rulebook_to_chunks local
    line_number,         \* parse_rulebook_to_chunks: lines taken by the loop so far
    chunks,              \* parse_rulebook_to_chunks local
    current_main_item_title, \* parse_rulebook_to_chunks local
    current_rule_lines,  \* parse_rulebook_to_chunks local
    entry,               \* the running entry point, or "none"
    html_content,        \* entry point: what get_dynamic_html_with_selenium returned
    extracted_info,      \* entry point: what extract_text_from_html returned
    rulebook_file,       \* entry point: rulebook.md as load_rulebook finds it
    rulebook_branch,     \* entry point: the branch taken after load_rulebook
    review_output,       \* entry point: the review text it ends with, or None
    history_entry,       \* app.review: the ReviewHistory row it committed, or NoHistory
    requests             \* the reviews running concurrently: the locals of each

vars == <<pc, op, text, mock_vector, job_post_vector, rulebook_vector_db, num_relevant_rules,
          relevant_rules_texts, posting, text_for_rag, retrieved_rules_text,
          assembled_prompt, environ, azure_credentials, client, actual_llm_response,
          review_result, llm_calls, sim_calls, raised, ret, rulebook_content, lines,
          line_number, chunks, current_main_item_title, current_rule_lines, entry,
          html_content, extracted_info, rulebook_file, rulebook_branch, review_output,
          history_entry, requests>>

\* The variables of the parser.
parserVars ==
    <<rulebook_content, lines, line_number, chunks, current_main_item_title,
      current_rule_lines>>

\* The variables of the entry points.
entryVars ==
    <<entry, html_content, extracted_info, rulebook_file, rulebook_branch, review_output,
      history_entry>>

\* The variables the vectorizer, the retrieval and the review do not touch.
restVars == <<parserVars, entryVars, requests>>

\* The variables of the vectorizer, the retrieval and the review.
reviewVars ==
    <<text, mock_vector, job_post_vector, rulebook_vector_db, num_relevant_rules,
      relevant_rules_texts, posting, text_for_rag, retrieved_rules_text,
      assembled_prompt, environ, azure_credentials, client, actual_llm_response,
      review_result, llm_calls, sim_calls>>

None == <<"None">>

(***************************************************************************)
(* Bounds of the model.                                                    *)
(***************************************************************************)
MaxTextLen == 11
MaxChunks == 3
MaxTopK == 3
MaxLines == 3
NumRequests == 2

(***************************************************************************)
(* String constants of the source.                                         *)
(***************************************************************************)
FAILURE_MARKER ==
    <<"[", "R", "E", "A", "L", " ", "A", "P", "I", " ", "C", "A", "L", "L", " ", "F", "A", "I",
      "L", "E", "D", "]", " ">>

SIM_VIOLATION_TEXT ==
    <<"u30FB", "*", "*", "u554F", "u984C", "u70B9", "u304C", "u3042", "u308B", "u7B87", "u6240",
      "*", "*", ":", " ", "u7D66", "u4E0E", "u30BB", "u30AF", "u30B7", "u30E7", "u30F3", " ", "(",
      "u30B7", "u30DF", "u30E5", "u30EC", "u30FC", "u30B7", "u30E7", "u30F3", " ", "f", "a", "l",
      "l", "b", "a", "c", "k", ")", "\n", "u30FB", "*", "*", "u554F", "u984C", "u306E", "u5185",
      "u5BB9", "*", "*", ":", " ", "u6700", "u4F4E", "u8CC3", "u91D1", "u306E", "u660E", "u793A",
      "u65B9", "u6CD5", "u306B", "u554F", "u984C", "u3042", "u308A", "u3002", "(", "u30B7",
      "u30DF", "u30E5", "u30EC", "u30FC", "u30B7", "u30E7", "u30F3", " ", "f", "a", "l", "l", "b",
      "a", "c", "k", ")", "\n", "u30FB", "*", "*", "u4FEE", "u6B63", "u63D0", "u6848", "*", "*",
      ":", " ", "u9069", "u5207", "u306A", "u5F62", "u5F0F", "u3067", "u8A18", "u8F09", "u3057",
      "u3066", "u304F", "u3060", "u3055", "u3044", "u3002", "(", "u30B7", "u30DF", "u30E5",
      "u30EC", "u30FC", "u30B7", "u30E7", "u30F3", " ", "f", "a", "l", "l", "b", "a", "c", "k",
      ")">>

SIM_NO_ISSUE_TEXT ==
    <<"u5BE9", "u67FB", "u306E", "u7D50", "u679C", "u3001", "u554F", "u984C", "u306F", "u898B",
      "u3064", "u304B", "u308A", "u307E", "u305B", "u3093", "u3067", "u3057", "u305F", "u3002",
      "(", "u30B7", "u30DF", "u30E5", "u30EC", "u30FC", "u30B7", "u30E7", "u30F3", " ", "f", "a",
      "l", "l", "b", "a", "c", "k", ")">>

RAG_FAILED_TEXT ==
    <<"uFF08", "R", "A", "G", " ", "F", "A", "I", "L", "E", "D", ":", " ", "M", "o", "c", "k", " ",
      "v", "e", "c", "t", "o", "r", " ", "g", "e", "n", "e", "r", "a", "t", "i", "o", "n", " ",
      "s", "k", "i", "p", "p", "e", "d", " ", "o", "r", " ", "f", "a", "i", "l", "e", "d", "uFF09">>

NO_RULE_FOUND_TEXT ==
    <<"u95A2", "u9023", "u3059", "u308B", "u30EB", "u30FC", "u30EB", "u306F", "u898B", "u3064",
      "u304B", "u308A", "u307E", "u305B", "u3093", "u3067", "u3057", "u305F", "uFF08", "R", "A",
      "G", " ", "D", "B", " ", "u7A7A", "u307E", "u305F", "u306F", "u30D9", "u30AF", "u30C8",
      "u30EB", "u4E0D", "u4E00", "u81F4", "uFF09", "u3002">>

GENERIC_RULES_NOTICE ==
    <<"u95A2", "u9023", "u3059", "u308B", "u5BE9", "u67FB", "u30EB", "u30FC", "u30EB", "u3092",
      "u7279", "u5B9A", "u3067", "u304D", "u307E", "u305B", "u3093", "u3067", "u3057", "u305F",
      "u3002", "u4E00", "u822C", "u7684", "u306A", "u6CE8", "u610F", "u70B9", "u306B", "u57FA",
      "u3065", "u3044", "u3066", "u5BE9", "u67FB", "u3057", "u307E", "u3059", "u3002">>

NOT_AVAILABLE ==
    <<"N", "/", "A">>

RAG_SEPARATOR ==
    <<"\n", "\n", "-", "-", "-", "\n", "\n">>

REVIEW_FAILED_TEXT ==
    <<"R", "e", "v", "i", "e", "w", " ", "p", "r", "o", "c", "e", "s", "s", " ", "f", "a", "i",
      "l", "e", "d", " ", "t", "o", " ", "p", "r", "o", "d", "u", "c", "e", " ", "a", " ", "r",
      "e", "s", "u", "l", "t", ".">>

LABEL_JOB_TITLE ==
    <<"u8077", "u7A2E", ":", " ">>

LABEL_SALARY ==
    <<"u7D66", "u4E0E", ":", " ">>

LABEL_LOCATION ==
    <<"u52E4", "u52D9", "u5730", ":", " ">>

LABEL_QUALIFICATIONS ==
    <<"u5FDC", "u52DF", "u8CC7", "u683C", ":", " ">>

BODY_SEPARATOR ==
    <<"\n", "-", "-", "-", "\n", "u672C", "u6587", ":">>

NO_POSTING_TEXT ==
    <<"u6C42", "u4EBA", "u60C5", "u5831", "u306A", "u3057">>

RAG_FAILED_PREFIX ==
    <<"uFF08", "R", "A", "G", " ", "F", "A", "I", "L", "E", "D">>

NO_RULE_FOUND_PREFIX ==
    <<"u95A2", "u9023", "u3059", "u308B", "u30EB", "u30FC", "u30EB", "u306F", "u898B", "u3064",
      "u304B", "u308A", "u307E", "u305B", "u3093", "u3067", "u3057", "u305F">>

OrdTable ==
    ("\t" :> 9) @@
    ("\n" :> 10) @@
    ("u000B" :> 11) @@
    ("u000C" :> 12) @@
    ("u000D" :> 13) @@
    ("u001C" :> 28) @@
    ("u001D" :> 29) @@
    ("u001E" :> 30) @@
    (" " :> 32) @@
    ("!" :> 33) @@
    ("#" :> 35) @@
    ("$" :> 36) @@
    ("%" :> 37) @@
    ("&" :> 38) @@
    ("'" :> 39) @@
    ("(" :> 40) @@
    (")" :> 41) @@
    ("*" :> 42) @@
    ("+" :> 43) @@
    ("," :> 44) @@
    ("-" :> 45) @@
    ("." :> 46) @@
    ("/" :> 47) @@
    ("0" :> 48) @@
    ("1" :> 49) @@
    ("2" :> 50) @@
    ("3" :> 51) @@
    ("4" :> 52) @@
    ("5" :> 53) @@
    ("6" :> 54) @@
    ("7" :> 55) @@
    ("8" :> 56) @@
    ("9" :> 57) @@
    (":" :> 58) @@
    (";" :> 59) @@
    ("<" :> 60) @@
    ("=" :> 61) @@
    (">" :> 62) @@
    ("?" :> 63) @@
    ("@" :> 64) @@
    ("A" :> 65) @@
    ("B" :> 66) @@
    ("C" :> 67) @@
    ("D" :> 68) @@
    ("E" :> 69) @@
    ("F" :> 70) @@
    ("G" :> 71) @@
    ("H" :> 72) @@
    ("I" :> 73) @@
    ("J" :> 74) @@
    ("K" :> 75) @@
    ("L" :> 76) @@
    ("M" :> 77) @@
    ("N" :> 78) @@
    ("O" :> 79) @@
    ("P" :> 80) @@
    ("Q" :> 81) @@
    ("R" :> 82) @@
    ("S" :> 83) @@
    ("T" :> 84) @@
    ("U" :> 85) @@
    ("V" :> 86) @@
    ("W" :> 87) @@
    ("X" :> 88) @@
    ("Y" :> 89) @@
    ("Z" :> 90) @@
    ("[" :> 91) @@
    ("]" :> 93) @@
    ("^" :> 94) @@
    ("_" :> 95) @@
    ("a" :> 97) @@
    ("b" :> 98) @@
    ("c" :> 99) @@
    ("d" :> 100) @@
    ("e" :> 101) @@
    ("f" :> 102) @@
    ("g" :> 103) @@
    ("h" :> 104) @@
    ("i" :> 105) @@
    ("j" :> 106) @@
    ("k" :> 107) @@
    ("l" :> 108) @@
    ("m" :> 109) @@
    ("n" :> 110) @@
    ("o" :> 111) @@
    ("p" :> 112) @@
    ("q" :> 113) @@
    ("r" :> 114) @@
    ("s" :> 115) @@
    ("t" :> 116) @@
    ("u" :> 117) @@
    ("v" :> 118) @@
    ("w" :> 119) @@
    ("x" :> 120) @@
    ("y" :> 121) @@
    ("z" :> 122) @@
    ("{" :> 123) @@
    ("|" :> 124) @@
    ("}" :> 125) @@
    ("~" :> 126) @@
    ("u0085" :> 133) @@
    ("u2028" :> 8232) @@
    ("u2029" :> 8233) @@
    ("u3000" :> 12288) @@
    ("u3001" :> 12289) @@
    ("u3002" :> 12290) @@
    ("u3042" :> 12354) @@
    ("u3044" :> 12356) @@
    ("u304B" :> 12363) @@
    ("u304C" :> 12364) @@
    ("u304D" :> 12365) @@
    ("u304F" :> 12367) @@
    ("u3053" :> 12371) @@
    ("u3054" :> 12372) @@
    ("u3055" :> 12373) @@
    ("u3057" :> 12375) @@
    ("u3059" :> 12377) @@
    ("u305B" :> 12379) @@
    ("u305F" :> 12383) @@
    ("u3060" :> 12384) @@
    ("u3064" :> 12388) @@
    ("u3065" :> 12389) @@
    ("u3066" :> 12390) @@
    ("u3067" :> 12391) @@
    ("u3068" :> 12392) @@
    ("u306A" :> 12394) @@
    ("u306B" :> 12395) @@
    ("u306E" :> 12398) @@
    ("u306F" :> 12399) @@
    ("u307E" :> 12414) @@
    ("u3089" :> 12425) @@
    ("u308A" :> 12426) @@
    ("u308B" :> 12427) @@
    ("u308C" :> 12428) @@
    ("u3092" :> 12434) @@
    ("u3093" :> 12435) @@
    ("u30A2" :> 12450) @@
    ("u30A4" :> 12452) @@
    ("u30A7" :> 12455) @@
    ("u30AD" :> 12461) @@
    ("u30AF" :> 12463) @@
    ("u30B7" :> 12471) @@
    ("u30B9" :> 12473) @@
    ("u30BB" :> 12475) @@
    ("u30C0" :> 12480) @@
    ("u30C1" :> 12481) @@
    ("u30C3" :> 12483) @@
    ("u30C6" :> 12486) @@
    ("u30C8" :> 12488) @@
    ("u30D7" :> 12503) @@
    ("u30D9" :> 12505) @@
    ("u30DB" :> 12507) @@
    ("u30DD" :> 12509) @@
    ("u30DF" :> 12511) @@
    ("u30E5" :> 12517) @@
    ("u30E7" :> 12519) @@
    ("u30EB" :> 12523) @@
    ("u30EC" :> 12524) @@
    ("u30F3" :> 12531) @@
    ("u30FB" :> 12539) @@
    ("u30FC" :> 12540) @@
    ("u4E00" :> 19968) @@
    ("u4E0D" :> 19981) @@
    ("u4E0E" :> 19982) @@
    ("u4E2D" :> 20013) @@
    ("u4EBA" :> 20154) @@
    ("u4F4E" :> 20302) @@
    ("u4FEE" :> 20462) @@
    ("u5185" :> 20869) @@
    ("u51FA" :> 20986) @@
    ("u5207" :> 20999) @@
    ("u529F" :> 21151) @@
    ("u52D9" :> 21209) @@
    ("u52DF" :> 21215) @@
    ("u52E4" :> 21220) @@
    ("u539F" :> 21407) @@
    ("u53C2" :> 21442) @@
    ("u53D6" :> 21462) @@
    ("u554F" :> 21839) @@
    ("u5730" :> 22320) @@
    ("u57FA" :> 22522) @@
    ("u5831" :> 22577) @@
    ("u5927" :> 22823) @@
    ("u5931" :> 22833) @@
    ("u5B9A" :> 23450) @@
    ("u5BB9" :> 23481) @@
    ("u5BE9" :> 23529) @@
    ("u5F0F" :> 24335) @@
    ("u5F62" :> 24418) @@
    ("u5F97" :> 24471) @@
    ("u5FDC" :> 24540) @@
    ("u60C5" :> 24773) @@
    ("u610F" :> 24847) @@
    ("u6210" :> 25104) @@
    ("u6240" :> 25152) @@
    ("u624B" :> 25163) @@
    ("u62BD" :> 25277) @@
    ("u63D0" :> 25552) @@
    ("u6557" :> 25943) @@
    ("u6587" :> 25991) @@
    ("u6599" :> 26009) @@
    ("u65B9" :> 26041) @@
    ("u660E" :> 26126) @@
    ("u66F4" :> 26356) @@
    ("u6700" :> 26368) @@
    ("u672C" :> 26412) @@
    ("u679C" :> 26524) @@
    ("u67FB" :> 26619) @@
    ("u683C" :> 26684) @@
    ("u6848" :> 26696) @@
    ("u6B63" :> 27491) @@
    ("u6C42" :> 27714) @@
    ("u6CD5" :> 27861) @@
    ("u6CE8" :> 27880) @@
    ("u70B9" :> 28857) @@
    ("u7279" :> 29305) @@
    ("u7684" :> 30340) @@
    ("u76EE" :> 30446) @@
    ("u793A" :> 31034) @@
    ("u7A2E" :> 31278) @@
    ("u7A3F" :> 31295) @@
    ("u7A7A" :> 31354) @@
    ("u7B87" :> 31623) @@
    ("u7D30" :> 32048) @@
    ("u7D50" :> 32080) @@
    ("u7D66" :> 32102) @@
    ("u8003" :> 32771) @@
    ("u8077" :> 32887) @@
    ("u81F4" :> 33268) @@
    ("u822C" :> 33324) @@
    ("u898B" :> 35211) @@
    ("u8A18" :> 35352) @@
    ("u8A73" :> 35443) @@
    ("u8CC3" :> 36035) @@
    ("u8CC7" :> 36039) @@
    ("u8F09" :> 36617) @@
    ("u9023" :> 36899) @@
    ("u9069" :> 36969) @@
    ("u91D1" :> 37329) @@
    ("u95A2" :> 38306) @@
    ("u9805" :> 38917) @@
    ("u9806" :> 38918) @@
    ("u984C" :> 38988) @@
    ("uFF08" :> 65288) @@
    ("uFF09" :> 65289) @@
    ("uFF0E" :> 65294) @@
    ("uFF10" :> 65296) @@
    ("uFF11" :> 65297) @@
    ("uFF12" :> 65298) @@
    ("uFF13" :> 65299) @@
    ("uFF14" :> 65300) @@
    ("uFF15" :> 65301) @@
    ("uFF16" :> 65302) @@
    ("uFF17" :> 65303) @@
    ("uFF18" :> 65304) @@
    ("uFF19" :> 65305) @@
    ("uFF1A" :> 65306) @@
    ("uFF5E" :> 65374)

(***************************************************************************)
(* Python built-ins used by the source.                                    *)
(***************************************************************************)
Ord(c) == OrdTable[c]

\* bool(v) of an optional str: None and "" are falsy.
Truthy(v) == v # None /\ v # <<>>

Min(a, b) == IF a <= b THEN a ELSE b

Max(a, b) == IF a >= b THEN a ELSE b

Abs(n) == IF n < 0 THEN -n ELSE n

\* s[:k], for a negative k too.
Slice(s, k) ==
    IF k >= 0 THEN SubSeq(s, 1, Min(k, Len(s)))
    ELSE SubSeq(s, 1, Max(0, Len(s) + k))

\* s.ljust(width, fill)
Ljust(s, width, fill) ==
    IF Len(s) >= width THEN s
    ELSE s \o [i \in 1..(width - Len(s)) |-> fill]

\* The characters str.strip() removes (str.isspace()).
Whitespace ==
    {" ", "\t", "\n", "u000B", "u000C", "u000D", "u001C", "u001D", "u001E", "u001F",
     "u0085", "u00A0", "u1680", "u2000", "u2001", "u2002", "u2003", "u2004", "u2005",
     "u2006", "u2007", "u2008", "u2009", "u200A", "u2028", "u2029", "u202F", "u205F",
     "u3000"}

RECURSIVE LStrip(_)
LStrip(s) ==
    IF s # <<>> /\ Head(s) \in Whitespace THEN LStrip(Tail(s)) ELSE s

RECURSIVE RStrip(_)
RStrip(s) ==
    IF s # <<>> /\ s[Len(s)] \in Whitespace THEN RStrip(SubSeq(s, 1, Len(s) - 1)) ELSE s

\* s.strip()
Strip(s) == RStrip(LStrip(s))

\* s.startswith(prefix)
StartsWith(s, prefix) ==
    Len(s) >= Len(prefix) /\ SubSeq(s, 1, Len(prefix)) = prefix

\* sep.join(parts)
RECURSIVE Join(_, _)
Join(sep, parts) ==
    IF parts = <<>> THEN <<>>
    ELSE IF Len(parts) = 1 THEN parts[1]
    ELSE parts[1] \o sep \o Join(sep, Tail(parts))

(***************************************************************************)
(* rule_processor.get_mock_vector                                          *)
(***************************************************************************)
VectorWidth == 10

\* The slice text[:10] forgotten: a long text is not cut.
get_mock_vector_uncut(t) ==
    LET padded_text == Ljust(t, VectorWidth, " ")
    IN  [i \in 1..Len(padded_text) |-> Ord(padded_text[i])]

get_mock_vector(t) ==
    LET padded_text == Ljust(Slice(t, VectorWidth), VectorWidth, " ")
    IN  [i \in 1..Len(padded_text) |-> Ord(padded_text[i])]

(***************************************************************************)
(* rule_processor.parse_rulebook_to_chunks                                 *)
(*                                                                         *)
(* A compiled pattern is modelled by what its match() at the start of a    *)
(* line answers.  None of the patterns needs backtracking: each greedy     *)
(* repetition is followed by a character outside its class.                *)
(***************************************************************************)
\* s[n:]
Drop(s, n) == SubSeq(s, n + 1, Len(s))

\* The length of the longest prefix of s made of characters of class.
RECURSIVE Span(_, _)
Span(s, class) ==
    IF s # <<>> /\ Head(s) \in class THEN 1 + Span(Tail(s), class) ELSE 0

\* \d, [a-zA-Z0-9] and the class of kana and kanji, over the characters of OrdTable.
Digits == {c \in DOMAIN OrdTable : Ord(c) \in (48..57) \cup (65296..65305)}

AsciiAlnum == {c \in DOMAIN OrdTable : Ord(c) \in (48..57) \cup (65..90) \cup (97..122)}

KanaKanji == {c \in DOMAIN OrdTable : Ord(c) \in (12450..12531) \cup (19968..40864)}

\* str.splitlines(): line, the characters of the line being read.
RECURSIVE SplitFrom(_, _)
SplitFrom(s, line) ==
    IF s = <<>> THEN (IF line = <<>> THEN <<>> ELSE <<line>>)
    ELSE IF Head(s) \in {"\n", "u000D", "u000B", "u000C", "u001C", "u001D", "u001E",
                        "u0085", "u2028", "u2029"}
    THEN <<line>>
         \o SplitFrom(IF Head(s) = "u000D" /\ Len(s) > 1 /\ s[2] = "\n"
                      THEN Tail(Tail(s)) ELSE Tail(s), <<>>)
    ELSE SplitFrom(Tail(s), Append(line, Head(s)))

splitlines(s) == SplitFrom(s, <<>>)

\* main_item_regex.match(line): group(1), or None without a match.
main_item_regex(line) ==
    LET after_mark == LStrip(Drop(line, 6))
        after_label == Drop(after_mark, 3)
        after_digits == Drop(after_label, Span(after_label, Digits))
    IN  IF /\ Len(line) >= 4
           /\ \A i \in 1..4 : line[i] \in Whitespace
           /\ StartsWith(Drop(line, 4), <<"#", "#">>)
           /\ StartsWith(after_mark, <<"u5927", "u9805", "u76EE">>)
           /\ Span(after_label, Digits) >= 1
           /\ StartsWith(after_digits, <<"uFF1A">>)
           /\ Len(after_digits) >= 2
        THEN Drop(after_digits, 1)
        ELSE None

\* bool(primary_rule_regex.match(line))
primary_rule_regex(line) ==
    /\ Len(line) >= 6
    /\ \A i \in 1..4 : line[i] \in Whitespace
    /\ line[5] \in {"-", "*"}
    /\ line[6] \in Whitespace

\* bool(sub_rule_bullet_regex.match(line))
sub_rule_bullet_regex(line) ==
    /\ Len(line) >= 10
    /\ \A i \in 1..8 : line[i] \in Whitespace
    /\ line[9] = "u30FB"
    /\ line[10] \in Whitespace

\* bool(list_item_regex.match(line))
list_item_regex(line) ==
    LET body == LStrip(line)
        kana == Span(Drop(body, 1), KanaKanji)
        alnum == Span(body, AsciiAlnum)
    IN  \/ /\ StartsWith(body, <<"(">>)
           /\ kana >= 1
           /\ StartsWith(Drop(body, kana + 1), <<")">>)
        \/ /\ alnum >= 1
           /\ Len(body) > alnum
           /\ body[alnum + 1] \in {".", "u3002", "uFF0E"}

\* bool(ignored_headers_regex.match(line))
ignored_headers_regex(line) ==
    /\ StartsWith(LStrip(line), <<"#", "#", "#">>)
    /\ \E header \in {<<"u3042", "u306A", "u305F">>,
                         <<"u624B", "u9806">>,
                         <<"u5BE9", "u67FB", "u30DD", "u30A4", "u30F3", "u30C8", "u8A73",
                           "u7D30">>} :
           StartsWith(LStrip(Drop(LStrip(line), 3)), header)

\* bool(ignored_lines_regex.match(line))
ignored_lines_regex(line) ==
    \E ignored \in
        {<<"u624B", "u9806", "u306B", "u3042", "u308B", "u3001", "u5927", "u9805", "u76EE",
           "uFF11", "uFF5E", "u5927", "u9805", "u76EE", "uFF18", "u306E", "u4E2D", "u306B",
           "u66F4", "u306B", "u8A73", "u7D30", "u306E", "u30C1", "u30A7", "u30C3", "u30AF",
           "u30DD", "u30A4", "u30F3", "u30C8", "u3092", "u8A18", "u8F09", "u3057", "u3066",
           "u3044", "u307E", "u3059", "u3002">>,
         <<"u30FB", " ", "u5927", "u9805", "u76EE", "u306E", "u4E2D", "u306E", "u8A73",
           "u7D30", "u30C1", "u30A7", "u30C3", "u30AF", "u30DD", "u30A4", "u30F3", "u30C8",
           "u3054", "u3068", "u306B">>,
         <<"u307E", "u305F", "u53C2", "u8003", "u8CC7", "u6599", "u3068", "u3057", "u3066">>} :
        StartsWith(LStrip(line), ignored)

\* No line is skipped as blank.
IsBlank_never(line) == FALSE

\* Lines 92-94: the line is skipped.
IsBlank(line) == Strip(line) = <<>>

\* Lines 108-121: is_new_rule_start
IsNewRuleStart(line) ==
    \/ primary_rule_regex(line)
    \/ sub_rule_bullet_regex(line)
    \/ list_item_regex(line) /\ Span(line, Whitespace) >= 8

\* re.sub(r' +', ' ', s)
RECURSIVE CondenseSpaces(_)
CondenseSpaces(s) ==
    IF s = <<>> THEN <<>>
    ELSE IF Head(s) = " " /\ Len(s) > 1 /\ s[2] = " " THEN CondenseSpaces(Tail(s))
    ELSE <<Head(s)>> \o CondenseSpaces(Tail(s))

\* The locals of parse_rulebook_to_chunks before the first line.
InitialParse ==
    [chunks |-> <<>>, current_main_item_title |-> None, current_rule_lines |-> <<>>]

\* finalize_chunk(), on the locals st of parse_rulebook_to_chunks.
finalize_chunk(st) ==
    [chunks |->
        IF st.current_rule_lines # <<>> /\ Truthy(st.current_main_item_title)
        THEN Append(st.chunks,
                    [main_item_title |-> st.current_main_item_title,
                     rule_text |->
                        Strip(Join(<<"\n">>,
                                   [i \in 1..Len(st.current_rule_lines) |->
                                      CondenseSpaces(Strip(st.current_rule_lines[i]))]))])
        ELSE st.chunks,
     current_main_item_title |-> st.current_main_item_title,
     current_rule_lines |-> <<>>]

\* The section is left open.
IgnoredStep_keeps_section(st) == finalize_chunk(st)

\* Lines 96-99: an ignored header or an ignored line.
IgnoredStep(st) == [finalize_chunk(st) EXCEPT !.current_main_item_title = None]

\* The title is replaced before the buffer is finalized.
HeaderStep_title_first(st, title) ==
    finalize_chunk([st EXCEPT !.current_main_item_title = Strip(title)])

\* Lines 123-125: a section header whose group(1) is title.
HeaderStep(st, title) ==
    [finalize_chunk(st) EXCEPT !.current_main_item_title = Strip(title)]

\* A line outside any section is buffered too.
RuleStep_no_section(st, line) ==
    IF IsNewRuleStart(line)
    THEN [finalize_chunk(st) EXCEPT !.current_rule_lines = <<line>>]
    ELSE [st EXCEPT !.current_rule_lines = Append(@, line)]

\* A line that starts a rule replaces the buffer, which is not finalized.
RuleStep_no_finalize(st, line) ==
    IF ~Truthy(st.current_main_item_title) THEN st
    ELSE IF IsNewRuleStart(line)
    THEN [st EXCEPT !.current_rule_lines = <<line>>]
    ELSE [st EXCEPT !.current_rule_lines = Append(@, line)]

\* Lines 126-133: any other line.
RuleStep(st, line) ==
    IF ~Truthy(st.current_main_item_title) THEN st
    ELSE IF IsNewRuleStart(line)
    THEN [finalize_chunk(st) EXCEPT !.current_rule_lines = <<line>>]
    ELSE [st EXCEPT !.current_rule_lines = Append(@, line)]

\* A blank line finalizes the buffered chunk.
ProcessLine_blank_ends(st, line) ==
    IF IsBlank(line) THEN finalize_chunk(st)
    ELSE IF ignored_headers_regex(line) \/ ignored_lines_regex(line) THEN IgnoredStep(st)
    ELSE IF main_item_regex(line) # None THEN HeaderStep(st, main_item_regex(line))
    ELSE RuleStep(st, line)

\* The body of the loop over the lines, lines 91-133.
ProcessLine(st, line) ==
    IF IsBlank(line) THEN st
    ELSE IF ignored_headers_regex(line) \/ ignored_lines_regex(line) THEN IgnoredStep(st)
    ELSE IF main_item_regex(line) # None THEN HeaderStep(st, main_item_regex(line))
    ELSE RuleStep(st, line)

RECURSIVE ParseLines(_, _)
ParseLines(st, ls) ==
    IF ls = <<>> THEN st ELSE ParseLines(ProcessLine(st, Head(ls)), Tail(ls))

parse_rulebook_to_chunks(content) ==
    finalize_chunk(ParseLines(InitialParse, splitlines(content))).chunks

\* Without chunk.copy() the vector is stored into the chunk that was passed in.
ChunksAfterVectorizing_no_copy(parsed) ==
    [i \in 1..Len(parsed) |->
        [main_item_title |-> parsed[i].main_item_title,
         rule_text |-> parsed[i].rule_text,
         vector |-> get_mock_vector(parsed[i].rule_text)]]

\* The list passed to add_mock_vectors_to_chunks, after the call: lines 145-148
\* copy each chunk, store the vector into the copy and append it to a new list.
ChunksAfterVectorizing(parsed) == parsed

add_mock_vectors_to_chunks(parsed) ==
    [i \in 1..Len(parsed) |->
        [main_item_title |-> parsed[i].main_item_title,
         rule_text |-> parsed[i].rule_text,
         vector |-> get_mock_vector(parsed[i].rule_text)]]

(***************************************************************************)
(* reviewer.simulate_rag_retrieval                                         *)
(***************************************************************************)
NoVector == <<-1>>

\* sum(abs(v1 - v2) for v1, v2 in zip(a, b))
RECURSIVE L1Distance(_, _)
L1Distance(a, b) ==
    IF a = <<>> \/ b = <<>> THEN 0
    ELSE Abs(Head(a) - Head(b)) + L1Distance(Tail(a), Tail(b))

\* `not rule_vector or len(rule_vector) != len(job_post_vector)` is false
UsableVector(rule_vector, query) ==
    /\ rule_vector # NoVector
    /\ rule_vector # <<>>
    /\ Len(rule_vector) = Len(query)

\* A chunk without a usable vector is scored at distance 0.
RECURSIVE ScoreRules_scores_all(_, _)
ScoreRules_scores_all(query, db) ==
    IF db = <<>> THEN <<>>
    ELSE <<[rule_text |-> Head(db).rule_text,
            score |-> IF UsableVector(Head(db).vector, query)
                      THEN L1Distance(query, Head(db).vector) ELSE 0]>>
         \o ScoreRules_scores_all(query, Tail(db))

\* The loop that fills scored_rules.
RECURSIVE ScoreRules(_, _)
ScoreRules(query, db) ==
    IF db = <<>> THEN <<>>
    ELSE LET rule_chunk == Head(db)
             rest == ScoreRules(query, Tail(db))
         IN  IF ~UsableVector(rule_chunk.vector, query) THEN rest
             ELSE <<[rule_text |-> rule_chunk.rule_text,
                     score |-> L1Distance(query, rule_chunk.vector)]>> \o rest

\* The entry is put before the entries of its score.
RECURSIVE InsertByScore_before_equal(_, _)
InsertByScore_before_equal(sorted, x) ==
    IF sorted = <<>> THEN <<x>>
    ELSE IF Head(sorted).score < x.score
         THEN <<Head(sorted)>> \o InsertByScore_before_equal(Tail(sorted), x)
         ELSE <<x>> \o sorted

\* One insertion of list.sort(key=score): after every entry that is not larger.
RECURSIVE InsertByScore(_, _)
InsertByScore(sorted, x) ==
    IF sorted = <<>> THEN <<x>>
    ELSE IF Head(sorted).score <= x.score
         THEN <<Head(sorted)>> \o InsertByScore(Tail(sorted), x)
         ELSE <<x>> \o sorted

\* The sort forgotten: scored_rules stays in rulebook order.
SortByScore_unsorted(scored) == scored

\* scored_rules.sort(key=lambda x: x['score']): ascending and stable.
RECURSIVE SortByScore(_)
SortByScore(scored) ==
    IF scored = <<>> THEN <<>>
    ELSE InsertByScore(SortByScore(SubSeq(scored, 1, Len(scored) - 1)),
                       scored[Len(scored)])

\* relevant_rules_texts, or the empty list where the function returns before it.
RelevantRulesTexts(query, db, topk) ==
    IF query = NoVector THEN <<>>
    ELSE LET top == Slice(SortByScore(ScoreRules(query, db)), topk)
         IN  [i \in 1..Len(top) |-> top[i].rule_text]

\* A request for more rules than were scored answered with the fallback.
simulate_rag_retrieval_strict(query, db, topk) ==
    IF query = NoVector THEN RAG_FAILED_TEXT
    ELSE IF ScoreRules(query, db) = <<>> \/ topk > Len(ScoreRules(query, db))
         THEN NO_RULE_FOUND_TEXT
    ELSE Join(RAG_SEPARATOR, RelevantRulesTexts(query, db, topk))

simulate_rag_retrieval(query, db, topk) ==
    IF query = NoVector THEN RAG_FAILED_TEXT
    ELSE IF ScoreRules(query, db) = <<>> THEN NO_RULE_FOUND_TEXT
    ELSE Join(RAG_SEPARATOR, RelevantRulesTexts(query, db, topk))

(***************************************************************************)
(* reviewer.REVIEW_PROMPT_TEMPLATE and str.format                          *)
(*                                                                         *)
(* The template is kept as str.format parses it: literal stretches, which  *)
(* hold no brace, alternating with replacement fields.  Literal k is the   *)
(* k-th literal stretch of the template; its text is business text.        *)
(***************************************************************************)
Literal(k) == [kind |-> "literal", index |-> k, name |-> "", text |-> <<>>]

Field(n) == [kind |-> "field", index |-> 0, name |-> n, text |-> <<>>]

Rendered(t) == [kind |-> "text", index |-> 0, name |-> "", text |-> t]

REVIEW_PROMPT_TEMPLATE ==
    <<Literal(1), Field("relevant_rules"),
      Literal(2), Field("job_post_url"),
      Literal(3), Field("job_title"),
      Literal(4), Field("salary"),
      Literal(5), Field("location"),
      Literal(6), Field("qualifications"),
      Literal(7), Field("full_text_content"),
      Literal(8)>>

\* template.format(**data) raises KeyError: a field has no value in data.
FormatRaises(template, data) ==
    \E i \in 1..Len(template) :
        template[i].kind = "field" /\ template[i].name \notin DOMAIN data

\* template.format(**data), where it does not raise.
Format(template, data) ==
    [i \in 1..Len(template) |->
        IF template[i].kind = "field" /\ template[i].name \in DOMAIN data
        THEN Rendered(data[template[i].name])
        ELSE template[i]]

(***************************************************************************)
(* reviewer.perform_review, lines 204-247: ragText, vector, rules, prompt  *)
(***************************************************************************)
DefaultNumRelevantRules == 3

TextForRagParts(p) ==
    LET labelled ==
            (IF Truthy(p.job_title) THEN <<LABEL_JOB_TITLE \o p.job_title>> ELSE <<>>)
            \o (IF Truthy(p.salary) THEN <<LABEL_SALARY \o p.salary>> ELSE <<>>)
            \o (IF Truthy(p.location) THEN <<LABEL_LOCATION \o p.location>> ELSE <<>>)
            \o (IF Truthy(p.qualifications)
                THEN <<LABEL_QUALIFICATIONS \o p.qualifications>> ELSE <<>>)
    IN  labelled
        \o (IF labelled # <<>> /\ Truthy(p.full_text_content)
            THEN <<BODY_SEPARATOR>> ELSE <<>>)
        \o (IF Truthy(p.full_text_content) THEN <<p.full_text_content>> ELSE <<>>)

\* The joined text without the sentinel for an empty result.
TextForRag_no_sentinel(p) == Strip(Join(<<"\n">>, TextForRagParts(p)))

TextForRag(p) ==
    LET joined == Strip(Join(<<"\n">>, TextForRagParts(p)))
    IN  IF joined = <<>> THEN NO_POSTING_TEXT ELSE joined

\* The vector is taken from the last characters of the text.
JobPostVector_tail(rag_text, import_ok) ==
    IF import_ok /\ Len(rag_text) > VectorWidth
    THEN get_mock_vector(SubSeq(rag_text, Len(rag_text) - VectorWidth + 1, Len(rag_text)))
    ELSE IF import_ok THEN get_mock_vector(rag_text)
    ELSE [i \in 1..VectorWidth |-> 0]

\* The try/except around the import of get_mock_vector.
JobPostVector(rag_text, import_ok) ==
    IF import_ok THEN get_mock_vector(rag_text)
    ELSE [i \in 1..VectorWidth |-> 0]

\* The test for an empty or whitespace-only result left out.
RetrievedRulesText_no_blank_test(query, db) ==
    LET found == simulate_rag_retrieval(query, db, DefaultNumRelevantRules)
    IN  IF \/ StartsWith(found, RAG_FAILED_PREFIX)
           \/ StartsWith(found, NO_RULE_FOUND_PREFIX)
        THEN GENERIC_RULES_NOTICE
        ELSE found

RetrievedRulesText(query, db) ==
    LET found == simulate_rag_retrieval(query, db, DefaultNumRelevantRules)
    IN  IF \/ Strip(found) = <<>>
           \/ StartsWith(found, RAG_FAILED_PREFIX)
           \/ StartsWith(found, NO_RULE_FOUND_PREFIX)
        THEN GENERIC_RULES_NOTICE
        ELSE found

\* `is not None` in place of the truth test: an empty field is rendered empty.
OrNotAvailable_none_only(v) == IF v # None THEN v ELSE NOT_AVAILABLE

OrNotAvailable(v) == IF Truthy(v) THEN v ELSE NOT_AVAILABLE

\* The url left out of prompt_data.
PromptData_without_url(p, rules) ==
    [job_title |-> IF Truthy(p.job_title) THEN p.job_title ELSE NOT_AVAILABLE,
     salary |-> IF Truthy(p.salary) THEN p.salary ELSE NOT_AVAILABLE,
     location |-> IF Truthy(p.location) THEN p.location ELSE NOT_AVAILABLE,
     qualifications |-> IF Truthy(p.qualifications) THEN p.qualifications ELSE NOT_AVAILABLE,
     full_text_content |->
        IF Truthy(p.full_text_content) THEN p.full_text_content ELSE NOT_AVAILABLE,
     relevant_rules |-> rules]

PromptData(p, rules) ==
    [job_post_url |-> OrNotAvailable(p.job_post_url),
     job_title |-> OrNotAvailable(p.job_title),
     salary |-> OrNotAvailable(p.salary),
     location |-> OrNotAvailable(p.location),
     qualifications |-> OrNotAvailable(p.qualifications),
     full_text_content |-> OrNotAvailable(p.full_text_content),
     relevant_rules |-> rules]

(***************************************************************************)
(* reviewer.get_azure_openai_credentials                                   *)
(***************************************************************************)
Settings ==
    <<"AZURE_OPENAI_API_KEY", "AZURE_OPENAI_ENDPOINT", "OPENAI_API_VERSION",
      "AZURE_OPENAI_DEPLOYMENT_NAME">>

NoCredentials ==
    [api_key |-> None, azure_endpoint |-> None, api_version |-> None,
     deployment_name |-> None]

\* The test of OPENAI_API_VERSION forgotten.
MissingVars_three(env) ==
    SelectSeq(Settings, LAMBDA s : s # "OPENAI_API_VERSION" /\ ~Truthy(env[s]))

\* missing_vars: the settings os.environ.get finds unset or empty.
MissingVars(env) == SelectSeq(Settings, LAMBDA s : ~Truthy(env[s]))

get_azure_openai_credentials(env) ==
    IF MissingVars(env) # <<>> THEN NoCredentials
    ELSE [api_key |-> env["AZURE_OPENAI_API_KEY"],
          azure_endpoint |-> env["AZURE_OPENAI_ENDPOINT"],
          api_version |-> env["OPENAI_API_VERSION"],
          deployment_name |-> env["AZURE_OPENAI_DEPLOYMENT_NAME"]]

(***************************************************************************)
(* reviewer.call_actual_llm_api and reviewer.simulate_ai_call              *)
(*                                                                         *)
(* What the Azure OpenAI client does is an input: the constructor raises,  *)
(* the completion request raises, or the completion has some content.      *)
(***************************************************************************)
call_actual_llm_api(prompt_text, credentials, behaviour) ==
    IF behaviour.kind = "init_raises" THEN None
    ELSE IF behaviour.kind = "create_raises" THEN None
    ELSE behaviour.content

\* `is not None` in place of the truth test: an empty completion succeeds.
LLMSucceeded_not_none(response) == response # None

\* `if actual_llm_response:` (line 255)
LLMSucceeded(response) == Truthy(response)

\* The marker forgotten.
FailedCallResult_unmarked(sim_response) == sim_response

\* review_result after a failed call (line 260)
FailedCallResult(sim_response) == FAILURE_MARKER \o sim_response

\* review_result without credentials (line 263)
NoCredentialsResult(sim_response) == sim_response

\* A retry of the call in place of the fallback.
AfterFailedCall_retry == "call_llm"

\* The step after a failed call (lines 257-259)
AfterFailedCall == "fallback"

\* The value perform_review returns (line 265).
ReturnValue(result) == IF result # None THEN result ELSE REVIEW_FAILED_TEXT

\* coin: random.random() < 0.5
simulate_ai_call(prompt, coin) ==
    IF coin THEN SIM_VIOLATION_TEXT ELSE SIM_NO_ISSUE_TEXT

(***************************************************************************)
(* rule_processor.load_rulebook and the entry points core_logic.py and     *)
(* main.py.  What the scraper and the file system answer is an input.      *)
(***************************************************************************)
\* load_rulebook("rulebook.md"): the text of the file, or the message of line 21
\* (FileNotFoundError) or line 23 (any other exception, file.content its text).
load_rulebook(file) ==
    IF file.status = "ok" THEN file.content
    ELSE IF file.status = "missing"
    THEN <<"E", "r", "r", "o", "r", ":", " ", "R", "u", "l", "e", "b", "o", "o", "k", " ",
           "f", "i", "l", "e", " ", "n", "o", "t", " ", "f", "o", "u", "n", "d", " ", "a",
           "t", " ", "'">>
         \o file.path
         \o <<"'", ".", " ", "C", "h", "e", "c", "k", " ", "p", "a", "t", "h", " ", "r",
              "e", "l", "a", "t", "i", "v", "e", " ", "t", "o", " ", "p", "r", "o", "j",
              "e", "c", "t", " ", "r", "o", "o", "t", " ", "o", "r", " ", "p", "r", "o",
              "v", "i", "d", "e", " ", "a", "b", "s", "o", "l", "u", "t", "e", " ", "p",
              "a", "t", "h", ".">>
    ELSE <<"A", "n", " ", "u", "n", "e", "x", "p", "e", "c", "t", "e", "d", " ", "e", "r",
           "r", "o", "r", " ", "o", "c", "c", "u", "r", "r", "e", "d", ":", " ">>
         \o file.content

\* The test for a failed load: core_logic.py line 78, main.py line 104.
LoadFailureSeen(caller, content) ==
    \/ StartsWith(content, <<"E", "r", "r", "o", "r", ":">>)
    \/ /\ caller = "main"
       /\ StartsWith(content,
                     <<"A", "n", " ", "u", "n", "e", "x", "p", "e", "c", "t", "e", "d",
                       " ", "e", "r", "r", "o", "r", " ", "o", "c", "c", "u", "r", "r",
                       "e", "d", ":">>)

\* The posting arguments of perform_review: core_logic.py lines 50-54 and
\* 93-100, main.py lines 35-95, 113-116 and 122-129.
EntryPosting(caller, html, info) ==
    LET extracted ==
            [job_post_url |-> <<"u">>, job_title |-> info.job_title,
             salary |-> info.salary, location |-> info.location,
             qualifications |-> info.qualifications,
             full_text_content |-> info.full_text]
        placeholder(t) ==
            [job_post_url |-> <<"u">>, job_title |-> NOT_AVAILABLE,
             salary |-> NOT_AVAILABLE, location |-> NOT_AVAILABLE,
             qualifications |-> NOT_AVAILABLE, full_text_content |-> t]
        collected ==
            IF ~Truthy(html)
            THEN placeholder(
                   <<"u6C42", "u4EBA", "u60C5", "u5831", "U", "R", "L", "u304B", "u3089",
                     "u306E", "H", "T", "M", "L", "u53D6", "u5F97", "u306B", "u5931",
                     "u6557", "u3057", "u307E", "u3057", "u305F", "uFF08", "S", "e", "l",
                     "e", "n", "i", "u", "m", "uFF09", "u3002", "u3053", "u308C", "u306F",
                     "u30D7", "u30EC", "u30FC", "u30B9", "u30DB", "u30EB", "u30C0",
                     "u30FC", "u306E", "u30C6", "u30AD", "u30B9", "u30C8", "u3067",
                     "u3059", "u3002">>)
            ELSE IF ~Truthy(info.full_text)
            THEN placeholder(
                   <<"u6C42", "u4EBA", "u60C5", "u5831", "u306E", "u5185", "u5BB9",
                     "u304C", "u53D6", "u5F97", "u3067", "u304D", "u307E", "u305B",
                     "u3093", "u3067", "u3057", "u305F", "uFF08", "S", "e", "l", "e", "n",
                     "i", "u", "m", " ", "H", "T", "M", "L", "u306F", "u53D6", "u5F97",
                     "u6210", "u529F", "u3001", "u30C6", "u30AD", "u30B9", "u30C8",
                     "u62BD", "u51FA", "u5931", "u6557", "uFF09", "u3002", "u3053",
                     "u308C", "u306F", "u30D7", "u30EC", "u30FC", "u30B9", "u30DB",
                     "u30EB", "u30C0", "u30FC", "u306E", "u30C6", "u30AD", "u30B9",
                     "u30C8", "u3067", "u3059", "u3002">>)
            ELSE extracted
    IN  IF caller = "process_job_posting_url" THEN extracted
        ELSE IF ~Truthy(collected.full_text_content)
        THEN placeholder(
               <<"u5185", "u5BB9", "u304C", "u7A7A", "u306E", "u6C42", "u4EBA", "u539F",
                 "u7A3F", "u3067", "u3059", "u3002">>)
        ELSE collected

(***************************************************************************)
(* Concurrent reviews over one rulebook_vector_db                          *)
(***************************************************************************)
\* The vector is taken out of the chunk that is scored.
DbAfterScoring_in_place(db, k) == [db EXCEPT ![k].vector = NoVector]

\* rulebook_vector_db after the loop of simulate_rag_retrieval has read chunk k:
\* lines 162-167 read the chunk and append a new dict to scored_rules.
DbAfterScoring(db, k) == db

(***************************************************************************)
(* The inputs of the calls.                                                *)
(***************************************************************************)
TextChars == {" ", "A"}

\* Every str over TextChars of at most MaxTextLen characters.
Texts == UNION {[1..n -> TextChars] : n \in 0..MaxTextLen}

RuleTexts == {<<"B">>, <<"D">>, <<"F">>}

\* A chunk as add_mock_vectors_to_chunks builds it, and the same chunk with its
\* vector missing, empty or one value short.
ChunksOf(rule_text) ==
    {[main_item_title |-> <<"x">>, rule_text |-> rule_text, vector |-> v] :
        v \in {get_mock_vector(rule_text), NoVector, <<>>,
               Slice(get_mock_vector(rule_text), VectorWidth - 1)}}

Chunks == UNION {ChunksOf(t) : t \in RuleTexts}

RulebookDBs == UNION {[1..n -> Chunks] : n \in 0..MaxChunks}

QueryVectors == {NoVector, get_mock_vector(<<"A">>), get_mock_vector(<<"C">>)}

FieldValues(present) == {None, <<>>, present}

Postings ==
    [job_post_url : FieldValues(<<"u">>),
     job_title : FieldValues(<<"t">>),
     salary : FieldValues(<<"s">>),
     location : FieldValues(<<"l">>),
     qualifications : FieldValues(<<"q">>),
     full_text_content : FieldValues(<<"f">>)]

\* Postings with white space in and around the fields.
RagPostings ==
    [job_post_url : {<<"u">>},
     job_title : {None, <<" ">>, <<"t">>},
     salary : {None, <<"s">>},
     location : {None, <<"l">>},
     qualifications : {<<>>, <<"q">>},
     full_text_content : {None, <<" ">>, <<"\t">>, <<"\n", "f", " ">>}]

NoPosting ==
    [job_post_url |-> None, job_title |-> None, salary |-> None, location |-> None,
     qualifications |-> None, full_text_content |-> None]

GoodChunk(rule_text) ==
    [main_item_title |-> <<"x">>, rule_text |-> rule_text,
     vector |-> get_mock_vector(rule_text)]

\* Postings whose texts for the vector agree on the first ten characters and
\* differ after them, and postings whose texts differ earlier.
RulesPostings ==
    [job_post_url : {<<"u">>},
     job_title : {None, <<"t">>},
     salary : {None, <<"s">>},
     location : {None, <<"l">>},
     qualifications : {None, <<"q">>},
     full_text_content :
        {None, <<"f">>, <<"f", " ", " ", " ", " ", " ", " ", " ", " ", " ", "x">>}]

\* Rulebooks whose rule texts are blank or begin like a fallback string of the
\* retrieval, and a rulebook of two rules that every review retrieves.
RulesDBs ==
    {<<>>,
     <<GoodChunk(<<>>)>>,
     <<GoodChunk(<<" ">>)>>,
     <<GoodChunk(<<" ">>), GoodChunk(<<"\t">>)>>,
     <<GoodChunk(RAG_FAILED_PREFIX \o <<"x">>)>>,
     <<GoodChunk(NO_RULE_FOUND_PREFIX \o <<"y">>)>>,
     <<GoodChunk(<<"B">>), GoodChunk(<<"u8077">>)>>}

\* The rulebooks given to perform_review: empty, one chunk without a vector, and
\* MaxChunks + 1 chunks with their vectors (more than the three rules retrieved).
ReviewDBs ==
    {<<>>,
     <<[main_item_title |-> <<"x">>, rule_text |-> <<"B">>, vector |-> NoVector]>>,
     [i \in 1..(MaxChunks + 1) |-> GoodChunk(<<<<"F">>, <<"B">>, <<"D">>>>[((i - 1) % 3) + 1])]}

SettingNames == {Settings[i] : i \in 1..Len(Settings)}

Environs == [SettingNames -> {None, <<>>, <<"v">>}]

NoEnviron == [s \in SettingNames |-> None]

\* A completion that reads like a failed call.
ForgedCompletion == FAILURE_MARKER \o SIM_NO_ISSUE_TEXT

Completions == {None, <<>>, <<"c">>, <<" ">>, ForgedCompletion}

NoClient == [kind |-> "not_called", content |-> None]

Clients ==
    {[kind |-> "init_raises", content |-> None],
     [kind |-> "create_raises", content |-> None]}
    \cup {[kind |-> "content", content |-> c] : c \in Completions}

\* The kinds of line a rulebook of the model is made of.
RuleLine ==
    [BLANK |->
        <<" ", "\t">>,
     HEADER_A |->
        <<" ", " ", " ", " ", "#", "#", "u5927", "u9805", "u76EE", "1", "uFF1A", "A">>,
     HEADER_B |->
        <<" ", "\t", "u3000", " ", "#", "#", " ", "u5927", "u9805", "u76EE", "uFF11",
          "uFF12", "uFF1A", " ", "B", " ">>,
     HEADER_NO_TITLE |->
        <<" ", " ", " ", " ", "#", "#", "u5927", "u9805", "u76EE", "1", "uFF1A",
          "u3000">>,
     IGNORED_HEADER |->
        <<" ", " ", "#", "#", "#", " ", "u624B", "u9806">>,
     IGNORED_LINE |->
        <<"u307E", "u305F", "u53C2", "u8003", "u8CC7", "u6599", "u3068", "u3057",
          "u3066", "g">>,
     BULLET |->
        <<" ", " ", " ", " ", "-", " ", "p", " ", " ", "q">>,
     SUB_BULLET |->
        <<" ", " ", " ", " ", " ", " ", " ", " ", "u30FB", " ", "r">>,
     NUMBERED |->
        <<" ", " ", " ", " ", " ", " ", " ", " ", "1", ".", " ", "s">>,
     PAREN |->
        <<" ", " ", " ", " ", " ", " ", " ", " ", " ", "(", "u30A2", ")", "k">>,
     SHALLOW |->
        <<" ", " ", "a", ".", " ", "t">>,
     PLAIN |->
        <<"x", " ", " ", "y", "\t", "z", " ">>,
     MARKED |->
        <<" ", " ", "-", "-", "-", " ", "m">>]

RuleLines == {RuleLine[kind] : kind \in DOMAIN RuleLine}

\* Rulebooks of one more line, with empty and whitespace-only lines between
\* the lines of a section.
BlankLineDocuments ==
    {Join(<<"\n">>, ls) :
        ls \in [1..(MaxLines + 1) ->
                  {RuleLine.HEADER_A, RuleLine.PLAIN, RuleLine.BULLET, RuleLine.BLANK, <<>>}]}

\* The rulebooks: up to MaxLines lines, a newline between two lines.
Documents ==
    {Join(<<"\n">>, ls) : ls \in UNION {[1..n -> RuleLines] : n \in 0..MaxLines}}
        \cup BlankLineDocuments

\* What extract_text_from_html returns: the fields it did not find are None.
ExtractedInfos ==
    [job_title : {None, <<"t">>}, salary : {None, <<"s">>}, location : {None},
     qualifications : {None}, full_text : {None, <<>>, <<"f">>}]

NoExtraction ==
    [job_title |-> None, salary |-> None, location |-> None, qualifications |-> None,
     full_text |-> None]

\* rulebook.md: missing, unreadable, empty, a rulebook, and rulebooks whose text
\* begins like the messages of load_rulebook.
RulebookFiles ==
    LET rulebook == RuleLine.HEADER_A \o <<"\n">> \o RuleLine.PLAIN
        path == <<"/", "r", ".", "m", "d">>
    IN  {[status |-> "missing", path |-> path, content |-> <<>>],
         [status |-> "unreadable", path |-> path, content |-> <<"e">>],
         [status |-> "ok", path |-> path, content |-> <<>>],
         [status |-> "ok", path |-> path, content |-> rulebook],
         [status |-> "ok", path |-> path,
          content |-> <<"E", "r", "r", "o", "r", ":", "\n">> \o rulebook],
         [status |-> "ok", path |-> path,
          content |->
              <<"A", "n", " ", "u", "n", "e", "x", "p", "e", "c", "t", "e", "d", " ", "e",
                "r", "r", "o", "r", " ", "o", "c", "c", "u", "r", "r", "e", "d", ":">>
              \o <<"\n">> \o rulebook]}

NoFile == [status |-> "none", path |-> <<>>, content |-> <<>>]

\* What parse_rulebook_to_chunks returns: chunks of a title and a text.
ParsedChunkLists ==
    UNION {[1..n -> {[main_item_title |-> <<"x">>, rule_text |-> t] :
                        t \in {<<"B">>, <<"D">>}}] : n \in 0..MaxChunks}

\* The postings and the rulebooks of the concurrent reviews.
ConcurrentPostings ==
    {[NoPosting EXCEPT !.full_text_content = <<"F">>],
     [NoPosting EXCEPT !.job_title = <<"t">>]}

ConcurrentDBs ==
    {<<GoodChunk(<<"F">>), GoodChunk(<<"B">>)>>,
     <<[main_item_title |-> <<"x">>, rule_text |-> <<"B">>, vector |-> NoVector],
       GoodChunk(<<"D">>)>>}

\* The locals of a review that is not running.
NoRequest ==
    [pc |-> "none", posting |-> NoPosting, text_for_rag |-> None,
     job_post_vector |-> NoVector, read_chunks |-> <<>>,
     retrieved_rules_text |-> None, assembled_prompt |-> <<>>]

(***************************************************************************)
(* State                                                                   *)
(***************************************************************************)
VectorizerIdle == text' = <<>> /\ mock_vector' = NoVector

RetrievalIdle ==
    /\ job_post_vector' = NoVector
    /\ rulebook_vector_db' = <<>>
    /\ num_relevant_rules' = 0
    /\ relevant_rules_texts' = <<>>

ReviewIdle ==
    /\ posting' = NoPosting
    /\ text_for_rag' = None
    /\ retrieved_rules_text' = None
    /\ assembled_prompt' = <<>>
    /\ environ' = NoEnviron
    /\ azure_credentials' = NoCredentials
    /\ client' = NoClient
    /\ actual_llm_response' = None
    /\ review_result' = None
    /\ llm_calls' = 0
    /\ sim_calls' = 0

ParserIdle ==
    /\ rulebook_content' = <<>>
    /\ lines' = <<>>
    /\ line_number' = 0
    /\ chunks' = <<>>
    /\ current_main_item_title' = None
    /\ current_rule_lines' = <<>>

\* No ReviewHistory row.
NoHistory ==
    [job_url |-> None, job_title |-> None, company_name |-> None,
     review_result_raw |-> None]

\* The dict process_job_posting_url returns: the keys of core_logic.py lines
\* 14-27.  site_domain, image_ocr_texts, error_message and debug_messages are
\* kept at their first values: nothing in the model reads them.
ResultsDict ==
    [job_post_url |-> <<"u">>,
     site_domain |-> None,
     job_title |-> extracted_info.job_title,
     salary |-> extracted_info.salary,
     location |-> extracted_info.location,
     qualifications |-> extracted_info.qualifications,
     full_text_content |-> extracted_info.full_text,
     image_ocr_texts |-> <<>>,
     rulebook_chunks_count |-> Len(rulebook_vector_db),
     review_result |-> review_output,
     error_message |-> None,
     debug_messages |-> <<>>]

\* dict.get(key)
DictGet(d, key) == IF key \in DOMAIN d THEN d[key] ELSE None

EntryIdle ==
    /\ entry' = "none"
    /\ html_content' = None
    /\ extracted_info' = NoExtraction
    /\ rulebook_file' = NoFile
    /\ rulebook_branch' = "none"
    /\ review_output' = None
    /\ history_entry' = NoHistory

Init ==
    /\ pc = "idle"
    /\ op = "none"
    /\ text = <<>>
    /\ mock_vector = NoVector
    /\ job_post_vector = NoVector
    /\ rulebook_vector_db = <<>>
    /\ num_relevant_rules = 0
    /\ relevant_rules_texts = <<>>
    /\ posting = NoPosting
    /\ text_for_rag = None
    /\ retrieved_rules_text = None
    /\ assembled_prompt = <<>>
    /\ environ = NoEnviron
    /\ azure_credentials = NoCredentials
    /\ client = NoClient
    /\ actual_llm_response = None
    /\ review_result = None
    /\ llm_calls = 0
    /\ sim_calls = 0
    /\ raised = "none"
    /\ ret = None
    /\ rulebook_content = <<>>
    /\ lines = <<>>
    /\ line_number = 0
    /\ chunks = <<>>
    /\ current_main_item_title = None
    /\ current_rule_lines = <<>>
    /\ entry = "none"
    /\ html_content = None
    /\ extracted_info = NoExtraction
    /\ rulebook_file = NoFile
    /\ rulebook_branch = "none"
    /\ review_output = None
    /\ history_entry = NoHistory
    /\ requests = <<>>

(***************************************************************************)
(* Calls                                                                   *)
(***************************************************************************)
\* get_mock_vector(t), called on its own.
GetMockVectorCall ==
    /\ pc = "idle"
    /\ UNCHANGED restVars
    /\ \E t \in Texts :
        /\ text' = t
        /\ mock_vector' = get_mock_vector(t)
    /\ op' = "get_mock_vector"
    /\ pc' = "returned"
    /\ raised' = "none"
    /\ ret' = None
    /\ RetrievalIdle
    /\ ReviewIdle

\* simulate_rag_retrieval(query, db, topk), called on its own.
SimulateRagRetrievalCall ==
    /\ pc = "idle"
    /\ UNCHANGED restVars
    /\ \E query \in QueryVectors, db \in RulebookDBs, topk \in 0..MaxTopK :
        /\ job_post_vector' = query
        /\ rulebook_vector_db' = db
        /\ num_relevant_rules' = topk
        /\ relevant_rules_texts' = RelevantRulesTexts(query, db, topk)
        /\ ret' = simulate_rag_retrieval(query, db, topk)
    /\ op' = "simulate_rag_retrieval"
    /\ pc' = "returned"
    /\ raised' = "none"
    /\ VectorizerIdle
    /\ ReviewIdle

\* perform_review, lines 204-247: up to the assembled prompt, for a posting of
\* postings and a rulebook of dbs.
PerformReviewOf(postings, dbs) ==
    /\ UNCHANGED restVars
    /\ \E p \in postings, db \in dbs, import_ok \in BOOLEAN :
        LET rag_text == TextForRag(p)
            query == JobPostVector(rag_text, import_ok)
            rules == RetrievedRulesText(query, db)
            data == PromptData(p, rules)
        IN  /\ posting' = p
            /\ rulebook_vector_db' = db
            /\ text_for_rag' = rag_text
            /\ job_post_vector' = query
            /\ num_relevant_rules' = DefaultNumRelevantRules
            /\ relevant_rules_texts' = RelevantRulesTexts(query, db, DefaultNumRelevantRules)
            /\ retrieved_rules_text' = rules
            /\ IF FormatRaises(REVIEW_PROMPT_TEMPLATE, data)
               THEN /\ assembled_prompt' = <<>>
                    /\ raised' = "KeyError"
                    /\ pc' = "returned"
               ELSE /\ assembled_prompt' = Format(REVIEW_PROMPT_TEMPLATE, data)
                    /\ raised' = "none"
                    /\ pc' = "credentials"
    /\ op' = "perform_review"
    /\ environ' = NoEnviron
    /\ azure_credentials' = NoCredentials
    /\ client' = NoClient
    /\ actual_llm_response' = None
    /\ review_result' = None
    /\ llm_calls' = 0
    /\ sim_calls' = 0
    /\ ret' = None
    /\ VectorizerIdle

PerformReviewStart == pc = "idle" /\ PerformReviewOf(Postings, ReviewDBs)

\* perform_review on postings whose fields hold white space.
PerformReviewRagText == pc = "idle" /\ PerformReviewOf(RagPostings, ReviewDBs)

\* perform_review called with the rulebooks RulesDBs.
PerformReviewRules == pc = "idle" /\ PerformReviewOf(RulesPostings, RulesDBs)

\* perform_review, line 250: azure_credentials = get_azure_openai_credentials()
GetCredentials ==
    /\ pc = "credentials"
    /\ \E env \in Environs :
        /\ environ' = env
        /\ azure_credentials' = get_azure_openai_credentials(env)
    /\ pc' = IF azure_credentials' # NoCredentials THEN "call_llm" ELSE "simulate"
    /\ UNCHANGED restVars
    /\ UNCHANGED <<op, text, mock_vector, job_post_vector, rulebook_vector_db,
                   num_relevant_rules, relevant_rules_texts, posting, text_for_rag,
                   retrieved_rules_text, assembled_prompt, client, actual_llm_response,
                   review_result, llm_calls, sim_calls, raised, ret>>

\* perform_review, lines 254-258: the one real call, and the return on success.
CallLLM ==
    /\ pc = "call_llm"
    /\ \E c \in Clients :
        /\ client' = c
        /\ actual_llm_response' = call_actual_llm_api(assembled_prompt, azure_credentials, c)
    /\ llm_calls' = llm_calls + 1
    /\ IF LLMSucceeded(actual_llm_response')
       THEN /\ review_result' = actual_llm_response'
            /\ ret' = ReturnValue(review_result')
            /\ pc' = "returned"
       ELSE /\ pc' = AfterFailedCall
            /\ UNCHANGED <<review_result, ret>>
    /\ UNCHANGED restVars
    /\ UNCHANGED <<op, text, mock_vector, job_post_vector, rulebook_vector_db,
                   num_relevant_rules, relevant_rules_texts, posting, text_for_rag,
                   retrieved_rules_text, assembled_prompt, environ, azure_credentials,
                   sim_calls, raised>>

\* perform_review, lines 259-260 and 265: the simulator after a failed call.
SimulateAfterFailure ==
    /\ pc = "fallback"
    /\ \E coin \in BOOLEAN :
        review_result' = FailedCallResult(simulate_ai_call(assembled_prompt, coin))
    /\ sim_calls' = sim_calls + 1
    /\ ret' = ReturnValue(review_result')
    /\ pc' = "returned"
    /\ UNCHANGED restVars
    /\ UNCHANGED <<op, text, mock_vector, job_post_vector, rulebook_vector_db,
                   num_relevant_rules, relevant_rules_texts, posting, text_for_rag,
                   retrieved_rules_text, assembled_prompt, environ, azure_credentials,
                   client, actual_llm_response, llm_calls, raised>>

\* perform_review, lines 262-263 and 265: the simulator without credentials.
SimulateWithoutCredentials ==
    /\ pc = "simulate"
    /\ \E coin \in BOOLEAN :
        review_result' = NoCredentialsResult(simulate_ai_call(assembled_prompt, coin))
    /\ sim_calls' = sim_calls + 1
    /\ ret' = ReturnValue(review_result')
    /\ pc' = "returned"
    /\ UNCHANGED restVars
    /\ UNCHANGED <<op, text, mock_vector, job_post_vector, rulebook_vector_db,
                   num_relevant_rules, relevant_rules_texts, posting, text_for_rag,
                   retrieved_rules_text, assembled_prompt, environ, azure_credentials,
                   client, actual_llm_response, llm_calls, raised>>

\* The caller drops the frame of the call that returned or raised.
Return ==
    /\ \/ pc = "returned" /\ entry = "none"
       \/ pc = "entry_done"
       \/ pc = "review_done"
       \/ pc = "concurrent" /\ \A r \in DOMAIN requests : requests[r].pc = "done"
    /\ pc' = "idle"
    /\ op' = "none"
    /\ raised' = "none"
    /\ ret' = None
    /\ VectorizerIdle
    /\ RetrievalIdle
    /\ ReviewIdle
    /\ ParserIdle
    /\ EntryIdle
    /\ requests' = <<>>

\* The locals of the running parse_rulebook_to_chunks.
ParserState ==
    [chunks |-> chunks, current_main_item_title |-> current_main_item_title,
     current_rule_lines |-> current_rule_lines]

SetParserState(st) ==
    /\ chunks' = st.chunks
    /\ current_main_item_title' = st.current_main_item_title
    /\ current_rule_lines' = st.current_rule_lines

\* parse_rulebook_to_chunks(content), called on its own: lines 30-89.
ParseRulebookCall ==
    /\ pc = "idle"
    /\ \E content \in Documents :
        /\ rulebook_content' = content
        /\ lines' = splitlines(content)
    /\ line_number' = 0
    /\ SetParserState(InitialParse)
    /\ op' = "parse_rulebook_to_chunks"
    /\ pc' = "parse_line"
    /\ UNCHANGED <<raised, ret>>
    /\ UNCHANGED <<reviewVars, entryVars, requests>>

\* One turn of the loop over the lines, lines 91-133.
ParseLine ==
    /\ pc = "parse_line"
    /\ line_number < Len(lines)
    /\ SetParserState(ProcessLine(ParserState, lines[line_number + 1]))
    /\ line_number' = line_number + 1
    /\ UNCHANGED <<pc, op, raised, ret, rulebook_content, lines>>
    /\ UNCHANGED <<reviewVars, entryVars, requests>>

\* Lines 135-136: the last finalize_chunk() and the return of chunks.
ParseFinish ==
    /\ pc = "parse_line"
    /\ line_number = Len(lines)
    /\ SetParserState(finalize_chunk(ParserState))
    /\ pc' = "returned"
    /\ UNCHANGED <<op, raised, ret, rulebook_content, lines, line_number>>
    /\ UNCHANGED <<reviewVars, entryVars, requests>>

\* An entry point up to its call of perform_review, or to its end without one:
\* core_logic.py lines 14-87, main.py lines 28-116.
EntryUpToReview(caller) ==
    /\ pc = "idle"
    /\ \E html \in {None, <<"h">>}, info \in ExtractedInfos, file \in RulebookFiles :
        LET fetched == Truthy(html)
            stops_early == caller = "process_job_posting_url" /\ ~fetched
            content == load_rulebook(file)
            failed == LoadFailureSeen(caller, content)
        IN  /\ html_content' = html
            /\ extracted_info' = IF fetched THEN info ELSE NoExtraction
            /\ rulebook_file' = IF stops_early THEN NoFile ELSE file
            /\ rulebook_content' = IF stops_early THEN <<>> ELSE content
            /\ rulebook_branch' =
                  IF stops_early THEN "none" ELSE IF failed THEN "failed" ELSE "loaded"
            /\ IF stops_early \/ (caller = "main" /\ failed)
               THEN /\ pc' = "entry_done"
                    /\ UNCHANGED <<posting, rulebook_vector_db>>
               ELSE /\ pc' = "entry_review"
                    /\ posting' = EntryPosting(caller, html, extracted_info')
                    /\ rulebook_vector_db' =
                          IF failed THEN <<>>
                          ELSE add_mock_vectors_to_chunks(parse_rulebook_to_chunks(content))
    /\ entry' = caller
    /\ op' = caller
    /\ review_output' = None
    /\ history_entry' = NoHistory
    /\ UNCHANGED <<text, mock_vector, job_post_vector, num_relevant_rules,
                   relevant_rules_texts, text_for_rag, retrieved_rules_text,
                   assembled_prompt, environ, azure_credentials, client,
                   actual_llm_response, review_result, llm_calls, sim_calls, raised, ret,
                   lines, line_number, chunks, current_main_item_title,
                   current_rule_lines, requests>>

\* core_logic.process_job_posting_url
ProcessJobPostingUrl == EntryUpToReview("process_job_posting_url")

\* The script of main.py
MainScript == EntryUpToReview("main")

\* The call of perform_review by the entry point: core_logic.py lines 93-101,
\* main.py lines 122-130.
EntryPerformReview ==
    pc = "entry_review" /\ PerformReviewOf({posting}, {rulebook_vector_db})

\* The entry point takes what perform_review returned: core_logic.py lines
\* 102-105, main.py lines 132-135.
EntryFinish ==
    /\ pc = "returned"
    /\ entry # "none"
    /\ raised = "none"
    /\ review_output' = ret
    /\ pc' = "entry_done"
    /\ UNCHANGED <<op, raised, ret, reviewVars, parserVars, entry, html_content,
                   extracted_info, rulebook_file, rulebook_branch, history_entry,
                   requests>>

\* app.review, lines 70-72: a request without a url is answered 400 and nothing
\* is stored.
ReviewNoUrl ==
    /\ pc = "idle"
    /\ op' = "review"
    /\ pc' = "review_done"
    /\ UNCHANGED <<raised, ret, reviewVars, restVars>>

\* app.review, lines 74-96, after process_job_posting_url has returned: the
\* ReviewHistory row is built from results_dict and committed.
ReviewSaveHistory ==
    /\ pc = "entry_done"
    /\ entry = "process_job_posting_url"
    /\ history_entry' =
          [job_url |-> ResultsDict.job_post_url,
           job_title |-> DictGet(ResultsDict, "job_title"),
           company_name |-> DictGet(ResultsDict, "company_name"),
           review_result_raw |-> DictGet(ResultsDict, "review_result_raw")]
    /\ op' = "review"
    /\ pc' = "review_done"
    /\ UNCHANGED <<raised, ret, reviewVars, parserVars, entry, html_content,
                   extracted_info, rulebook_file, rulebook_branch, review_output,
                   requests>>

\* The locals of request r after a step.
SetRequest(r, locals) ==
    /\ requests' = [requests EXCEPT ![r] = locals]
    /\ UNCHANGED <<pc, op, raised, ret, text, mock_vector, job_post_vector,
                   num_relevant_rules, relevant_rules_texts, posting, text_for_rag,
                   retrieved_rules_text, assembled_prompt, environ, azure_credentials,
                   client, actual_llm_response, review_result, llm_calls, sim_calls,
                   parserVars, entryVars>>

\* NumRequests calls of perform_review are made with the same rulebook_vector_db.
StartRequests(db) ==
    /\ \E ps \in [1..NumRequests -> ConcurrentPostings] :
        /\ rulebook_vector_db' = db
        /\ requests' = [r \in 1..NumRequests |->
                            [NoRequest EXCEPT !.pc = "start", !.posting = ps[r]]]
    /\ pc' = "concurrent"
    /\ op' = "concurrent_reviews"
    /\ UNCHANGED <<raised, ret, text, mock_vector, job_post_vector, num_relevant_rules,
                   relevant_rules_texts, posting, text_for_rag, retrieved_rules_text,
                   assembled_prompt, environ, azure_credentials, client,
                   actual_llm_response, review_result, llm_calls, sim_calls,
                   parserVars, entryVars>>

ConcurrentCall == pc = "idle" /\ \E db \in ConcurrentDBs : StartRequests(db)

\* add_mock_vectors_to_chunks(chunks), called on its own with a parsed rulebook.
AddMockVectorsCall ==
    /\ pc = "idle"
    /\ \E parsed \in ParsedChunkLists : chunks' = parsed
    /\ op' = "add_mock_vectors_to_chunks"
    /\ pc' = "vectorize"
    /\ UNCHANGED <<raised, ret, rulebook_content, lines, line_number,
                   current_main_item_title, current_rule_lines>>
    /\ UNCHANGED <<reviewVars, entryVars, requests>>

\* Lines 144-149: the loop over the chunks and the return of the new list.
AddMockVectorsReturn ==
    /\ pc = "vectorize"
    /\ rulebook_vector_db' = add_mock_vectors_to_chunks(chunks)
    /\ chunks' = ChunksAfterVectorizing(chunks)
    /\ pc' = "returned"
    /\ UNCHANGED <<op, raised, ret, rulebook_content, lines, line_number,
                   current_main_item_title, current_rule_lines>>
    /\ UNCHANGED <<text, mock_vector, job_post_vector, num_relevant_rules,
                   relevant_rules_texts, posting, text_for_rag, retrieved_rules_text,
                   assembled_prompt, environ, azure_credentials, client,
                   actual_llm_response, review_result, llm_calls, sim_calls>>
    /\ UNCHANGED <<entryVars, requests>>

\* NumRequests calls of perform_review are made with the rulebook_vector_db that
\* add_mock_vectors_to_chunks returned.
ReviewsOverRulebook ==
    /\ pc = "returned"
    /\ op = "add_mock_vectors_to_chunks"
    /\ StartRequests(rulebook_vector_db)

\* perform_review of request r, lines 204-230: the text and its vector.
RequestVectorize(r) ==
    /\ pc = "concurrent"
    /\ requests[r].pc = "start"
    /\ \E import_ok \in BOOLEAN :
        SetRequest(r, [requests[r] EXCEPT
                          !.pc = "score",
                          !.text_for_rag = TextForRag(requests[r].posting),
                          !.job_post_vector =
                              JobPostVector(TextForRag(requests[r].posting), import_ok)])
    /\ UNCHANGED rulebook_vector_db

\* simulate_rag_retrieval of request r, lines 161-167: one turn of the loop.
RequestScore(r) ==
    /\ pc = "concurrent"
    /\ requests[r].pc = "score"
    /\ Len(requests[r].read_chunks) < Len(rulebook_vector_db)
    /\ LET k == Len(requests[r].read_chunks) + 1
       IN  /\ SetRequest(r, [requests[r] EXCEPT
                                !.read_chunks = Append(@, rulebook_vector_db[k])])
           /\ rulebook_vector_db' = DbAfterScoring(rulebook_vector_db, k)

\* Request r after the loop: simulate_rag_retrieval lines 169-174 on the chunks
\* as the loop has read them, and perform_review lines 233-247.
RequestAssemble(r) ==
    /\ pc = "concurrent"
    /\ requests[r].pc = "score"
    /\ Len(requests[r].read_chunks) = Len(rulebook_vector_db)
    /\ LET rules == RetrievedRulesText(requests[r].job_post_vector,
                                       requests[r].read_chunks)
       IN  SetRequest(r, [requests[r] EXCEPT
                             !.pc = "done",
                             !.retrieved_rules_text = rules,
                             !.assembled_prompt =
                                 Format(REVIEW_PROMPT_TEMPLATE,
                                        PromptData(requests[r].posting, rules))])
    /\ UNCHANGED rulebook_vector_db

Next ==
    \/ ProcessJobPostingUrl
    \/ MainScript
    \/ EntryPerformReview
    \/ EntryFinish
    \/ ReviewNoUrl
    \/ ReviewSaveHistory
    \/ ConcurrentCall
    \/ AddMockVectorsCall
    \/ AddMockVectorsReturn
    \/ ReviewsOverRulebook
    \/ \E r \in DOMAIN requests : RequestVectorize(r)
    \/ \E r \in DOMAIN requests : RequestScore(r)
    \/ \E r \in DOMAIN requests : RequestAssemble(r)
    \/ ParseRulebookCall
    \/ ParseLine
    \/ ParseFinish
    \/ GetMockVectorCall
    \/ SimulateRagRetrievalCall
    \/ PerformReviewStart
    \/ PerformReviewRagText
    \/ PerformReviewRules
    \/ GetCredentials
    \/ CallLLM
    \/ SimulateAfterFailure
    \/ SimulateWithoutCredentials
    \/ Return

Spec == Init /\ [][Next]_vars

\* get_mock_vector alone.
NextVectorizer == GetMockVectorCall \/ Return

SpecVectorizer == Init /\ [][NextVectorizer]_vars

\* simulate_rag_retrieval alone.
NextRetrieval == SimulateRagRetrievalCall \/ Return

SpecRetrieval == Init /\ [][NextRetrieval]_vars

\* parse_rulebook_to_chunks alone.
NextParser == ParseRulebookCall \/ ParseLine \/ ParseFinish \/ Return

SpecParser == Init /\ [][NextParser]_vars

\* The entry points.
NextEntry ==
    \/ ProcessJobPostingUrl
    \/ MainScript
    \/ EntryPerformReview
    \/ GetCredentials
    \/ CallLLM
    \/ SimulateAfterFailure
    \/ SimulateWithoutCredentials
    \/ EntryFinish
    \/ Return

SpecEntry == Init /\ [][NextEntry]_vars

\* The /review route of app.py.
NextWeb ==
    \/ ReviewNoUrl
    \/ ProcessJobPostingUrl
    \/ EntryPerformReview
    \/ GetCredentials
    \/ CallLLM
    \/ SimulateAfterFailure
    \/ SimulateWithoutCredentials
    \/ EntryFinish
    \/ ReviewSaveHistory
    \/ Return

SpecWeb == Init /\ [][NextWeb]_vars

\* Concurrent reviews.
NextConcurrent ==
    \/ ConcurrentCall
    \/ \E r \in DOMAIN requests : RequestVectorize(r)
    \/ \E r \in DOMAIN requests : RequestScore(r)
    \/ \E r \in DOMAIN requests : RequestAssemble(r)
    \/ Return

SpecConcurrent == Init /\ [][NextConcurrent]_vars

\* A rulebook gets its vectors and is then read by concurrent reviews.
NextRulebook ==
    \/ AddMockVectorsCall
    \/ AddMockVectorsReturn
    \/ ReviewsOverRulebook
    \/ \E r \in DOMAIN requests : RequestVectorize(r)
    \/ \E r \in DOMAIN requests : RequestScore(r)
    \/ \E r \in DOMAIN requests : RequestAssemble(r)
    \/ Return

SpecRulebook == Init /\ [][NextRulebook]_vars

\* perform_review alone.
NextReview ==
    \/ PerformReviewStart
    \/ GetCredentials
    \/ CallLLM
    \/ SimulateAfterFailure
    \/ SimulateWithoutCredentials
    \/ Return

SpecReview == Init /\ [][NextReview]_vars

\* perform_review alone, on the postings with white space.
NextRagText ==
    \/ PerformReviewRagText
    \/ GetCredentials
    \/ CallLLM
    \/ SimulateAfterFailure
    \/ SimulateWithoutCredentials
    \/ Return

SpecRagText == Init /\ [][NextRagText]_vars

\* perform_review over the rulebooks RulesDBs.
NextRules ==
    \/ PerformReviewRules
    \/ GetCredentials
    \/ CallLLM
    \/ SimulateAfterFailure
    \/ SimulateWithoutCredentials
    \/ Return

SpecRules == Init /\ [][NextRules]_vars

(***************************************************************************)
(* Claims                                                                  *)
(***************************************************************************)
Returned(f) == pc = "returned" /\ op = f

TenSpaces == <<" ", " ", " ", " ", " ", " ", " ", " ", " ", " ">>

\* C9: get_mock_vector(text) returns exactly 10 values for a text of any length:
\* value i is the character code of text[i] where the text has an i-th character
\* among its first 10, and 32, the code of the space, where it has none; so the
\* empty text and the text of ten spaces have the same vector.
C9_VectorShape ==
    Returned("get_mock_vector") =>
        /\ Len(mock_vector) = 10
        /\ \A i \in 1..10 :
              mock_vector[i] = IF i <= Len(text) THEN Ord(text[i]) ELSE 32
        /\ Ord(" ") = 32
        /\ text \in {<<>>, TenSpaces} => mock_vector = <<32, 32, 32, 32, 32, 32, 32, 32, 32, 32>>

\* A text of more than 10 characters, the last of them not a space, was vectorized.
C9_Witness ==
    /\ Returned("get_mock_vector")
    /\ Len(text) > 10
    /\ text[Len(text)] = "A"
    /\ text[1] = "A"

\* The sum over the dimensions d of |a[d] - b[d]|, for the first n dimensions.
RECURSIVE SumOfAbsDiff(_, _, _)
SumOfAbsDiff(a, b, n) ==
    IF n = 0 THEN 0
    ELSE (IF a[n] >= b[n] THEN a[n] - b[n] ELSE b[n] - a[n]) + SumOfAbsDiff(a, b, n - 1)

\* The chunks of the rulebook that have a vector as long as the query vector.
UsableChunks ==
    {i \in 1..Len(rulebook_vector_db) :
        /\ rulebook_vector_db[i].vector # NoVector
        /\ Len(rulebook_vector_db[i].vector) = Len(job_post_vector)}

ChunkDistance(i) ==
    SumOfAbsDiff(job_post_vector, rulebook_vector_db[i].vector, Len(job_post_vector))

\* A retrieval with a query vector has returned.
Retrieved == Returned("simulate_rag_retrieval") /\ job_post_vector # NoVector

\* C6: where some chunk is usable, simulate_rag_retrieval returns the texts of
\* min(topK, number of usable chunks) usable chunks, joined by the separator, in
\* ascending order of L1 distance to the query, and no usable chunk left out is
\* nearer than one that is returned.
C6_NearestTopK ==
    (Retrieved /\ UsableChunks # {}) =>
        LET m == Min(num_relevant_rules, Cardinality(UsableChunks))
        IN  /\ Len(relevant_rules_texts) = m
            /\ ret = Join(<<"\n", "\n", "-", "-", "-", "\n", "\n">>, relevant_rules_texts)
            /\ \E sel \in [1..m -> UsableChunks] :
                  /\ \A i, j \in 1..m : sel[i] = sel[j] => i = j
                  /\ \A i \in 1..m :
                        relevant_rules_texts[i] = rulebook_vector_db[sel[i]].rule_text
                  /\ \A i \in 1..m : i < m => ChunkDistance(sel[i]) <= ChunkDistance(sel[i + 1])
                  /\ \A i \in 1..m : \A j \in UsableChunks :
                        (\A k \in 1..m : sel[k] # j) => ChunkDistance(sel[i]) <= ChunkDistance(j)

\* Chunks at the distances 5, 1, 3 and topK = 2: the chunks at 1 and 3, in that order.
C6_Witness ==
    /\ Retrieved
    /\ Len(rulebook_vector_db) = 3
    /\ UsableChunks = {1, 2, 3}
    /\ <<ChunkDistance(1), ChunkDistance(2), ChunkDistance(3)>> = <<5, 1, 3>>
    /\ num_relevant_rules = 2
    /\ ret = <<"B", "\n", "\n", "-", "-", "-", "\n", "\n", "D">>

\* C7: simulate_rag_retrieval returns the fixed "no relevant rule found" string,
\* and does not raise, whenever no chunk is usable or the joined result would be
\* empty (an empty chunk list, or topK = 0).
C7_FallbackWhenEmpty ==
    (Retrieved /\ (UsableChunks = {} \/ num_relevant_rules = 0
                   \/ Join(RAG_SEPARATOR, relevant_rules_texts) = <<>>)) =>
        raised = "none" /\ ret = NO_RULE_FOUND_TEXT

\* C8 as claimed: a topK larger than the number of usable chunks gives the fallback
\* string.
C8_FallbackWhenTopKExceeds ==
    (Retrieved /\ num_relevant_rules > Cardinality(UsableChunks)) =>
        raised = "none" /\ ret = NO_RULE_FOUND_TEXT

\* C8 as amended: a topK larger than the number of usable chunks never raises; it
\* gives the texts of all the usable chunks, joined by the separator, and the
\* fallback string only where no chunk is usable.
C8_AllUsableWhenTopKExceeds ==
    (Retrieved /\ num_relevant_rules > Cardinality(UsableChunks)) =>
        /\ raised = "none"
        /\ UsableChunks = {} => ret = NO_RULE_FOUND_TEXT
        /\ UsableChunks # {} =>
              /\ Len(relevant_rules_texts) = Cardinality(UsableChunks)
              /\ \A i \in UsableChunks : \E k \in 1..Len(relevant_rules_texts) :
                    relevant_rules_texts[k] = rulebook_vector_db[i].rule_text
              /\ ret = Join(RAG_SEPARATOR, relevant_rules_texts)
              /\ ret # NO_RULE_FOUND_TEXT

\* topK = 3 over a rulebook of three chunks, two of them usable.
C8_Witness ==
    /\ Retrieved
    /\ num_relevant_rules = 3
    /\ Len(rulebook_vector_db) = 3
    /\ Cardinality(UsableChunks) = 2
    /\ Len(relevant_rules_texts) = 2

(***************************************************************************)
(* Claims about perform_review                                             *)
(***************************************************************************)
Reviewing == op = "perform_review"

Reviewed == Returned("perform_review") /\ raised = "none"

SimulatorTexts == {SIM_VIOLATION_TEXT, SIM_NO_ISSUE_TEXT}

MarkedSimulatorTexts == {FAILURE_MARKER \o t : t \in SimulatorTexts}

\* Some one of the four settings is unset or empty.
CredentialsIncomplete == \E n \in SettingNames : environ[n] \in {None, <<>>}

\* The real call was made and raised, or its completion was None or empty.
CallFailed ==
    /\ llm_calls = 1
    /\ \/ client.kind \in {"init_raises", "create_raises"}
       \/ client.kind = "content" /\ client.content \in {None, <<>>}

\* The real call was made and gave a completion that is not empty.
CallSucceeded ==
    llm_calls = 1 /\ client.kind = "content" /\ client.content \notin {None, <<>>}

\* C1: perform_review never raises, never stops before it returns, and returns a
\* text that is not empty, whatever the credentials, the client, the rulebook and
\* the posting fields are.
C1_NeverRaisesNonEmpty ==
    Reviewing =>
        /\ raised = "none"
        /\ pc \in {"credentials", "call_llm", "fallback", "simulate", "returned"}
        /\ pc = "returned" => ret # None /\ Len(ret) > 0
        /\ pc # "returned" =>
              ENABLED (GetCredentials \/ CallLLM \/ SimulateAfterFailure
                       \/ SimulateWithoutCredentials)

\* A review of a posting with no field, over a populated rulebook, with credentials
\* and a client whose request raised, has returned a text.
C1_Witness ==
    /\ Reviewed
    /\ posting = NoPosting
    /\ rulebook_vector_db # <<>>
    /\ ~CredentialsIncomplete
    /\ client.kind = "create_raises"
    /\ Len(ret) > 0

\* C2: with credentials, a completion that is not empty is returned as it is, with
\* no simulator call; a completion that is None or empty is never the result: the
\* call counts as failed and the simulator answers.
C2_RawCompletion ==
    (Reviewed /\ client.kind = "content") =>
        IF client.content \notin {None, <<>>}
        THEN ret = client.content /\ sim_calls = 0
        ELSE ret # client.content /\ sim_calls = 1 /\ ret \in MarkedSimulatorTexts

\* A completion "c" came back and was returned.
C2_Witness ==
    /\ Reviewed
    /\ ~CredentialsIncomplete
    /\ client = [kind |-> "content", content |-> <<"c">>]
    /\ ret = <<"c">>

\* C3 as claimed: the returned text is the marker followed by a simulator text if
\* and only if the real call was made and failed.
C3_MarkerIffFailed ==
    Reviewed => (ret \in MarkedSimulatorTexts <=> CallFailed)

\* C3 as amended: after a failed call the returned text is the marker followed by a
\* simulator text; without credentials it is a simulator text with no marker; after
\* a successful call it is the raw completion, so that it begins with the marker
\* only where the completion itself does.
C3_MarkerWhenFailed ==
    Reviewed =>
        /\ CallFailed \/ CallSucceeded \/ llm_calls = 0
        /\ CallFailed => ret \in MarkedSimulatorTexts
        /\ llm_calls = 0 => ret \in SimulatorTexts /\ ~StartsWith(ret, FAILURE_MARKER)
        /\ CallSucceeded => ret = client.content

\* The client could not be built and the marked simulator text came back.
C3_Witness ==
    /\ Reviewed
    /\ client.kind = "init_raises"
    /\ ret = FAILURE_MARKER \o SIM_VIOLATION_TEXT

\* C4: when one of the four settings is unset or empty, perform_review does not
\* call the client and returns one of the two simulator texts, with no marker.
C4_NoCredentialsNoCall ==
    (Reviewing /\ raised = "none" /\ pc # "credentials" /\ CredentialsIncomplete) =>
        /\ pc \in {"simulate", "returned"}
        /\ llm_calls = 0
        /\ client = NoClient
        /\ pc = "returned" => ret \in SimulatorTexts /\ sim_calls = 1

\* Only OPENAI_API_VERSION is empty, and a simulator text came back.
C4_Witness ==
    /\ Reviewed
    /\ environ["OPENAI_API_VERSION"] = <<>>
    /\ \A n \in SettingNames \ {"OPENAI_API_VERSION"} : environ[n] = <<"v">>
    /\ ret = SIM_NO_ISSUE_TEXT

\* C5: a review calls the client at most once and the simulator at most once; the
\* step a failed call leads to is the fallback, and the fallback step calls the
\* simulator and returns, with no second call of the client.
C5_OneAttempt ==
    [][/\ llm_calls' <= 1
       /\ sim_calls' <= 1
       /\ (llm_calls' > llm_calls /\ ~CallSucceeded') => pc' = "fallback"
       /\ pc = "fallback" =>
             pc' = "returned" /\ sim_calls' = sim_calls + 1 /\ llm_calls' = llm_calls]_vars

\* A failed call was followed by the simulator.
C5_Witness == Reviewed /\ llm_calls = 1 /\ sim_calls = 1 /\ CallFailed

PostingFields ==
    {"job_post_url", "job_title", "salary", "location", "qualifications",
     "full_text_content"}

TemplateFields ==
    {i \in 1..Len(REVIEW_PROMPT_TEMPLATE) : REVIEW_PROMPT_TEMPLATE[i].kind = "field"}

\* C10: the template has exactly the seven placeholders, format finds a value for
\* each, no placeholder is left in the prompt, an absent (None or empty) posting
\* field is rendered "N/A" and a present one as it is.
C10_PromptComplete ==
    (Reviewing /\ pc # "idle") =>
        /\ raised = "none"
        /\ Cardinality(TemplateFields) = 7
        /\ {REVIEW_PROMPT_TEMPLATE[i].name : i \in TemplateFields}
              = PostingFields \cup {"relevant_rules"}
        /\ Len(assembled_prompt) = Len(REVIEW_PROMPT_TEMPLATE)
        /\ \A i \in 1..Len(assembled_prompt) :
              IF i \in TemplateFields
              THEN assembled_prompt[i].kind = "text"
              ELSE assembled_prompt[i] = REVIEW_PROMPT_TEMPLATE[i]
        /\ \A i \in TemplateFields :
              LET n == REVIEW_PROMPT_TEMPLATE[i].name
              IN  IF n = "relevant_rules"
                  THEN assembled_prompt[i].text = retrieved_rules_text
                  ELSE assembled_prompt[i].text =
                         IF posting[n] \in {None, <<>>} THEN <<"N", "/", "A">> ELSE posting[n]

\* A prompt was assembled for a posting with a title, an empty salary and no location.
C10_Witness ==
    /\ Reviewing
    /\ pc = "credentials"
    /\ posting.job_title = <<"t">>
    /\ posting.salary = <<>>
    /\ posting.location = None
    /\ assembled_prompt[6].text = <<"t">>
    /\ assembled_prompt[8].text = <<"N", "/", "A">>
    /\ assembled_prompt[10].text = <<"N", "/", "A">>

(***************************************************************************)
(* The text that is vectorized                                             *)
(***************************************************************************)
\* The labelled fields of a posting, in the order of the text.
LabelledFields(p) ==
    <<<<LABEL_JOB_TITLE, p.job_title>>, <<LABEL_SALARY, p.salary>>,
      <<LABEL_LOCATION, p.location>>, <<LABEL_QUALIFICATIONS, p.qualifications>>>>

\* One line per present labelled field, each line ended by a newline.
RECURSIVE LabelledLines(_)
LabelledLines(pairs) ==
    IF pairs = <<>> THEN <<>>
    ELSE (IF Head(pairs)[2] \in {None, <<>>} THEN <<>>
          ELSE Head(pairs)[1] \o Head(pairs)[2] \o <<"\n">>)
         \o LabelledLines(Tail(pairs))

\* Labelled lines, the separator line when both sides are present, full text.
Concatenation(p) ==
    LET labelled == LabelledLines(LabelledFields(p))
        body == IF p.full_text_content \in {None, <<>>} THEN <<>> ELSE p.full_text_content
    IN  IF body = <<>> THEN labelled
        ELSE IF labelled = <<>> THEN body
        ELSE labelled \o BODY_SEPARATOR \o <<"\n">> \o body

\* C11: the text perform_review vectorizes is the labelled present fields in
\* the order title, salary, location, qualifications, then the full text when
\* present, with the separator line only between a labelled field and the full
\* text, surrounding white space removed; when nothing is left it is the fixed
\* sentinel, so the vectorizer is never given an empty string.
C11_RagText ==
    Reviewing =>
        /\ text_for_rag =
              IF Strip(Concatenation(posting)) = <<>> THEN NO_POSTING_TEXT
              ELSE Strip(Concatenation(posting))
        /\ text_for_rag # <<>>
        /\ job_post_vector \in
              {get_mock_vector(text_for_rag), [i \in 1..VectorWidth |-> 0]}

\* Only white space was extracted and the sentinel was vectorized.
C11_Witness ==
    /\ Reviewed
    /\ \A i \in 1..4 : LabelledFields(posting)[i][2] \in {None, <<>>}
    /\ posting.full_text_content = <<" ">>
    /\ text_for_rag = NO_POSTING_TEXT
    /\ job_post_vector = get_mock_vector(NO_POSTING_TEXT)

(***************************************************************************)
(* Claims about parse_rulebook_to_chunks                                   *)
(***************************************************************************)
Parsing == op = "parse_rulebook_to_chunks"

Parsed == Returned("parse_rulebook_to_chunks")

\* The loop takes the next line, ThisLine.
TakesLine ==
    pc = "parse_line" /\ line_number < Len(lines) /\ line_number' = line_number + 1

ThisLine == lines[line_number + 1]

SectionOpen == current_main_item_title \notin {None, <<>>}

\* The step finalizes the buffer: one more chunk, under the title current before
\* the step, when a section is open and lines are buffered; no chunk otherwise.
EmitsBuffered ==
    IF current_rule_lines # <<>> /\ SectionOpen
    THEN /\ Len(chunks') = Len(chunks) + 1
         /\ SubSeq(chunks', 1, Len(chunks)) = chunks
         /\ chunks'[Len(chunks')].main_item_title = current_main_item_title
    ELSE chunks' = chunks

Contains(s, part) ==
    \E k \in 0..(Len(s) - Len(part)) : SubSeq(s, k + 1, k + Len(part)) = part

RECURSIVE AfterFirst(_, _)
AfterFirst(s, c) ==
    IF s = <<>> THEN <<>>
    ELSE IF Head(s) = c THEN Tail(s) ELSE AfterFirst(Tail(s), c)

\* C12: no chunk of parse_rulebook_to_chunks has an empty or whitespace-only
\* rule_text, at any point of the parse and in what it returns; lines that
\* normalize to nothing are never emitted as a chunk.
C12_NoEmptyChunk ==
    Parsing => \A i \in 1..Len(chunks) : Strip(chunks[i].rule_text) # <<>>

\* A section with a blank line and a rule line returned one chunk.
C12_Witness ==
    /\ Parsed
    /\ lines = <<RuleLine.HEADER_A, RuleLine.BLANK, RuleLine.PLAIN>>
    /\ Len(chunks) = 1
    /\ chunks[1].rule_text = <<"x", " ", "y", "\t", "z">>

\* C17: a section-header line finalizes the buffered chunk under the title that
\* was current while its lines were buffered, empties the buffer and makes the
\* text after the label marker the current title; the header line is in no
\* chunk text and not in the buffer.
C17_SectionHeader ==
    [][TakesLine /\ main_item_regex(ThisLine) # None =>
        /\ EmitsBuffered
        /\ current_rule_lines' = <<>>
        /\ current_main_item_title' = Strip(AfterFirst(ThisLine, "uFF1A"))
        /\ \A i \in 1..Len(chunks') : ~Contains(chunks'[i].rule_text, Strip(ThisLine))]_vars

\* The second header closed the chunk of the first section.
C17_Witness ==
    /\ pc = "parse_line"
    /\ lines = <<RuleLine.HEADER_A, RuleLine.PLAIN, RuleLine.HEADER_B>>
    /\ line_number = 3
    /\ chunks = <<[main_item_title |-> <<"A">>, rule_text |-> <<"x", " ", "y", "\t", "z">>]>>
    /\ current_main_item_title = <<"B">>
    /\ current_rule_lines = <<>>

\* The marker token of a split-marker line.
SplitMarker == <<"-", "-", "-">>

\* Optional white space, the marker token, then nothing or white space and text.
IsSplitMarkerLine(line) ==
    /\ StartsWith(LStrip(line), SplitMarker)
    /\ Drop(LStrip(line), Len(SplitMarker)) = <<>>
       \/ Head(Drop(LStrip(line), Len(SplitMarker))) \in Whitespace

TrailingText(line) == Strip(Drop(LStrip(line), Len(SplitMarker)))

\* C18: in an open section a split-marker line finalizes the current chunk, and
\* the trailing text of the line, when there is some, is the first content of
\* the next chunk.
C18_SplitMarker ==
    [][TakesLine /\ SectionOpen /\ IsSplitMarkerLine(ThisLine) =>
        /\ EmitsBuffered
        /\ IF TrailingText(ThisLine) = <<>> THEN current_rule_lines' = <<>>
           ELSE /\ Len(current_rule_lines') = 1
                /\ Strip(current_rule_lines'[1]) = TrailingText(ThisLine)]_vars

\* The bulleted, numbered and parenthesized list lines.
ListLines ==
    {RuleLine.BULLET, RuleLine.SUB_BULLET, RuleLine.NUMBERED, RuleLine.PAREN,
     RuleLine.SHALLOW}

\* C19: in an open section a bulleted, numbered or parenthesized list line
\* neither ends the current chunk nor starts a new one: it joins the buffer.
C19_ListLinesContinue ==
    [][TakesLine /\ SectionOpen /\ ThisLine \in ListLines =>
        /\ chunks' = chunks
        /\ current_rule_lines' = Append(current_rule_lines, ThisLine)]_vars

\* C20: an ignored-header line finalizes the buffered chunk under the title
\* still current and clears the section; while no section is open every line
\* but a section header is dropped; a rulebook that is only an ignored header
\* line returns no chunk and raises nothing.
C20_IgnoredHeader ==
    [][/\ TakesLine /\ ignored_headers_regex(ThisLine) =>
            /\ EmitsBuffered
            /\ current_rule_lines' = <<>>
            /\ current_main_item_title' = None
       /\ TakesLine /\ ~SectionOpen /\ main_item_regex(ThisLine) = None =>
            /\ chunks' = chunks
            /\ current_rule_lines' = <<>>
            /\ current_main_item_title' \in {None, <<>>}
       /\ pc' = "returned" /\ Parsing /\ lines = <<RuleLine.IGNORED_HEADER>> =>
            chunks' = <<>> /\ raised' = "none"]_vars

\* The ignored header closed the chunk of the section and the section.
C20_Witness ==
    /\ pc = "parse_line"
    /\ lines = <<RuleLine.HEADER_A, RuleLine.PLAIN, RuleLine.IGNORED_HEADER>>
    /\ line_number = 3
    /\ chunks = <<[main_item_title |-> <<"A">>, rule_text |-> <<"x", " ", "y", "\t", "z">>]>>
    /\ current_main_item_title = None
    /\ current_rule_lines = <<>>

(***************************************************************************)
(* Claims about the entry points                                           *)
(***************************************************************************)
InEntry == entry # "none"

\* C13: once an entry point has called load_rulebook, it takes the failure
\* branch exactly when the load failed: a failed load (file missing or
\* unreadable) is never parsed as a rulebook, and a loaded rulebook, empty or
\* beginning like an error message, is never taken for a failure.
C13_LoadFailureRecognized ==
    InEntry /\ rulebook_branch # "none" =>
        (rulebook_file.status # "ok" <=> rulebook_branch = "failed")

\* The posting fields and, for each, the field of the extraction and its label.
ExtractedFields ==
    <<<<"job_title", "job_title", LABEL_JOB_TITLE>>,
      <<"salary", "salary", LABEL_SALARY>>,
      <<"location", "location", LABEL_LOCATION>>,
      <<"qualifications", "qualifications", LABEL_QUALIFICATIONS>>,
      <<"full_text_content", "full_text", <<>>>>>>

\* C14: when an entry point calls perform_review, a field that was not
\* extracted arrives as None or "", and the text that is vectorized has no
\* labelled part for it.
C14_UnextractedStaysEmpty ==
    InEntry /\ Reviewing =>
        \A i \in 1..Len(ExtractedFields) :
            extracted_info[ExtractedFields[i][2]] \in {None, <<>>} =>
                /\ posting[ExtractedFields[i][1]] \in {None, <<>>}
                /\ ExtractedFields[i][3] # <<>> =>
                       ~Contains(text_for_rag, ExtractedFields[i][3])

\* C15: an entry point never ends a request without a review text.
C15_EndsWithReview ==
    pc = "entry_done" => review_output \notin {None, <<>>}

(***************************************************************************)
(* Claims about concurrent reviews                                         *)
(***************************************************************************)
\* C16: while reviews run concurrently over one rulebook_vector_db, no step
\* changes the rulebook or the locals of more than one request, and the query
\* vector, the retrieved rules text and the assembled prompt of every request
\* are what perform_review computes for its posting alone.
C16_RequestsIndependent ==
    [][pc = "concurrent" /\ pc' = "concurrent" =>
        /\ rulebook_vector_db' = rulebook_vector_db
        /\ \E r \in DOMAIN requests :
               \A other \in DOMAIN requests \ {r} : requests'[other] = requests[other]
        /\ \A r \in DOMAIN requests :
               LET mine == requests'[r]
               IN  /\ mine.pc \in {"score", "done"} =>
                          /\ mine.text_for_rag = TextForRag(mine.posting)
                          /\ mine.job_post_vector \in
                                 {JobPostVector(mine.text_for_rag, ok) : ok \in BOOLEAN}
                   /\ mine.pc = "done" =>
                          /\ mine.retrieved_rules_text =
                                 RetrievedRulesText(mine.job_post_vector, rulebook_vector_db)
                          /\ mine.assembled_prompt =
                                 Format(REVIEW_PROMPT_TEMPLATE,
                                        PromptData(mine.posting, mine.retrieved_rules_text))]_vars

\* One review ran from start to end while another was inside its scoring loop.
C16_Witness ==
    /\ pc = "concurrent"
    /\ requests[1].pc = "score"
    /\ Len(requests[1].read_chunks) = 1
    /\ requests[2].pc = "done"
    /\ requests[2].posting # requests[1].posting
    /\ requests[2].retrieved_rules_text # GENERIC_RULES_NOTICE

\* The index of the most recent section header or ignored header/line among
\* the first n lines, 0 when there is none.
RECURSIVE LastMark(_)
LastMark(n) ==
    IF n = 0 THEN 0
    ELSE IF /\ ~IsBlank(lines[n])
            /\ \/ ignored_headers_regex(lines[n])
               \/ ignored_lines_regex(lines[n])
               \/ main_item_regex(lines[n]) # None
    THEN n
    ELSE LastMark(n - 1)

\* The title the first n lines leave open: the text after the label marker of
\* the most recent section header, when no ignored header/line follows it.
TitleAfter(n) ==
    IF LastMark(n) = 0 THEN None
    ELSE IF ignored_headers_regex(lines[LastMark(n)]) \/ ignored_lines_regex(lines[LastMark(n)])
    THEN None
    ELSE Strip(AfterFirst(lines[LastMark(n)], "uFF1A"))

NonBlank(ls) == SelectSeq(ls, LAMBDA l : ~IsBlank(l))

\* C21: every chunk has one section title, which is non-empty and is the
\* title of the most recent section header before the chunk's first line, no
\* ignored header in between; a chunk is created only while a section is
\* open; a line outside any open section enters no chunk and raises nothing.
C21_ChunkTitles ==
    /\ [](Parsing =>
            /\ raised = "none"
            /\ current_main_item_title = TitleAfter(line_number)
            /\ current_rule_lines # <<>> =>
                /\ SectionOpen
                /\ \E k \in LastMark(line_number)..line_number :
                      current_rule_lines = NonBlank(SubSeq(lines, k + 1, line_number))
            /\ \A i \in 1..Len(chunks) :
                  /\ DOMAIN chunks[i] = {"main_item_title", "rule_text"}
                  /\ chunks[i].main_item_title \notin {None, <<>>})
    /\ [][/\ Parsing /\ Parsing' /\ chunks' # chunks =>
                /\ SectionOpen
                /\ current_rule_lines # <<>>
                /\ Len(chunks') = Len(chunks) + 1
                /\ SubSeq(chunks', 1, Len(chunks)) = chunks
                /\ chunks'[Len(chunks')].main_item_title = current_main_item_title
          /\ TakesLine /\ ~SectionOpen /\ main_item_regex(ThisLine) = None =>
                /\ chunks' = chunks
                /\ current_rule_lines' = <<>>]_vars

\* The line before the first header was dropped; the line of the section is
\* the one chunk, under the title of the header.
C21_Witness ==
    /\ Parsed
    /\ lines = <<RuleLine.PLAIN, RuleLine.HEADER_A, RuleLine.BULLET>>
    /\ chunks = <<[main_item_title |-> <<"A">>, rule_text |-> <<"-", " ", "p", " ", "q">>]>>

\* One space for every run of spaces and tabs.
RECURSIVE CollapseBlanks(_)
CollapseBlanks(s) ==
    IF s = <<>> THEN <<>>
    ELSE IF Head(s) \in {" ", "\t"}
    THEN <<" ">> \o CollapseBlanks(Drop(s, Span(s, {" ", "\t"})))
    ELSE <<Head(s)>> \o CollapseBlanks(Tail(s))

\* The buffered lines, each stripped and collapsed, joined by newlines, stripped.
NormalizedText(buffered) ==
    Strip(Join(<<"\n">>, [i \in 1..Len(buffered) |-> CollapseBlanks(Strip(buffered[i]))]))

\* C22: the text of an emitted chunk is its buffered lines, each stripped and
\* with every run of spaces and tabs collapsed to one space, joined by single
\* newlines and stripped; no chunk text holds a tab or two adjacent spaces.
C22_NormalizedText ==
    [][Parsing /\ Parsing' /\ Len(chunks') = Len(chunks) + 1 =>
        /\ chunks'[Len(chunks')].rule_text = NormalizedText(current_rule_lines)
        /\ ~Contains(chunks'[Len(chunks')].rule_text, <<"\t">>)
        /\ ~Contains(chunks'[Len(chunks')].rule_text, <<" ", " ">>)]_vars

\* An empty or whitespace-only line.
IsBlankLine(line) == \A i \in 1..Len(line) : line[i] \in Whitespace

WithoutBlankLines(ls) == SelectSeq(ls, LAMBDA l : ~IsBlankLine(l))

\* C23: a blank line neither starts nor ends a chunk: taking it changes
\* nothing, and the chunks returned for a document are the chunks returned
\* for the document without its blank lines.
C23_BlankLinesSkipped ==
    /\ [](Parsed =>
            chunks = parse_rulebook_to_chunks(Join(<<"\n">>, WithoutBlankLines(lines))))
    /\ [][TakesLine /\ IsBlankLine(ThisLine) =>
            UNCHANGED <<chunks, current_main_item_title, current_rule_lines>>]_vars

\* An empty line and a whitespace-only line between the two lines of a chunk.
C23_Witness ==
    /\ Parsed
    /\ lines = <<RuleLine.HEADER_A, RuleLine.PLAIN, <<>>, RuleLine.PLAIN>>
       \/ lines = <<RuleLine.HEADER_A, RuleLine.PLAIN, RuleLine.BLANK, RuleLine.PLAIN>>
    /\ Len(chunks) = 1
    /\ chunks[1].rule_text =
          <<"x", " ", "y", "\t", "z", "\n", "x", " ", "y", "\t", "z">>

\* Line n is neither blank, nor a section header, nor an ignored header/line.
IsContentLine(n) == ~IsBlankLine(lines[n]) /\ LastMark(n) # n

\* The content lines among the first n lines that occur while a section is
\* open, cleaned, in document order.
RECURSIVE SectionLines(_)
SectionLines(n) ==
    IF n = 0 THEN <<>>
    ELSE IF IsContentLine(n) /\ TitleAfter(n) \notin {None, <<>>}
    THEN Append(SectionLines(n - 1), CondenseSpaces(Strip(lines[n])))
    ELSE SectionLines(n - 1)

\* The lines of the chunks cs, read in order.
RECURSIVE ChunkLines(_)
ChunkLines(cs) ==
    IF cs = <<>> THEN <<>>
    ELSE SplitFrom(Head(cs).rule_text, <<>>) \o ChunkLines(Tail(cs))

\* C24: in an open section every non-blank line that is no header and no
\* ignored header/line is appended to the buffer, whose earlier lines stay or
\* are emitted; the end of the document finalizes the buffer; the lines of the
\* returned chunks are these lines, cleaned, in document order, each once.
C24_LinesConserved ==
    /\ [](Parsed => ChunkLines(chunks) = SectionLines(Len(lines)))
    /\ [][/\ TakesLine /\ SectionOpen /\ IsContentLine(line_number + 1) =>
                \/ current_rule_lines' = Append(current_rule_lines, ThisLine)
                   /\ chunks' = chunks
                \/ current_rule_lines' = <<ThisLine>>
                   /\ current_rule_lines # <<>>
                   /\ EmitsBuffered
          /\ Parsing /\ pc = "parse_line" /\ pc' = "returned" =>
                EmitsBuffered /\ current_rule_lines' = <<>>]_vars

\* Three lines of one section came back in two chunks, in document order.
C24_Witness ==
    /\ Parsed
    /\ lines = <<RuleLine.HEADER_A, RuleLine.PLAIN, RuleLine.BULLET, RuleLine.PLAIN>>
    /\ Len(chunks) = 2
    /\ ChunkLines(chunks) =
          <<<<"x", " ", "y", "\t", "z">>, <<"-", " ", "p", " ", "q">>,
            <<"x", " ", "y", "\t", "z">>>>

(***************************************************************************)
(* Claims about the order and the selection of simulate_rag_retrieval      *)
(***************************************************************************)
\* Chunk i comes before chunk j: it is nearer, or as near and earlier.
ChunkBefore(i, j) ==
    \/ ChunkDistance(i) < ChunkDistance(j)
    \/ ChunkDistance(i) = ChunkDistance(j) /\ i < j

\* The place of the usable chunk i among the usable chunks.
Rank(i) == Cardinality({j \in UsableChunks : ChunkBefore(j, i)}) + 1

\* C25: chunks at the same L1 distance from the query come back in rulebook
\* order: the result is the first topK usable chunks in the order of distance,
\* then position, which the distances and the input order determine.
C25_StableOrder ==
    (Retrieved /\ UsableChunks # {}) =>
        /\ Len(relevant_rules_texts) = Min(num_relevant_rules, Cardinality(UsableChunks))
        /\ \A i \in UsableChunks :
              Rank(i) <= Len(relevant_rules_texts) =>
                  relevant_rules_texts[Rank(i)] = rulebook_vector_db[i].rule_text

\* Two chunks of different texts at the same distance, the one returned and the
\* other cut off by topK = 1.
C25_Witness ==
    /\ Retrieved
    /\ Len(rulebook_vector_db) = 2
    /\ UsableChunks = {1, 2}
    /\ ChunkDistance(1) = ChunkDistance(2)
    /\ rulebook_vector_db[1].rule_text = <<"D">>
    /\ rulebook_vector_db[2].rule_text = <<"B">>
    /\ num_relevant_rules = 1
    /\ ret = <<"D">>

\* The rulebook without the chunks whose vector is missing, empty or not as
\* long as the query vector.
UsableOnly ==
    SelectSeq(rulebook_vector_db,
              LAMBDA c : /\ c.vector \notin {NoVector, <<>>}
                         /\ Len(c.vector) = Len(job_post_vector))

\* C26: a chunk whose vector is missing, empty or of another length than the
\* query vector is skipped, raises nothing and is not in the result; every
\* chunk with a vector of the query's length is scored; the result is the
\* result for the rulebook without the unusable chunks.
C26_UnusableSkipped ==
    Retrieved =>
        /\ raised = "none"
        /\ Len(relevant_rules_texts) = Min(num_relevant_rules, Len(UsableOnly))
        /\ \A k \in 1..Len(relevant_rules_texts) :
              \E i \in 1..Len(UsableOnly) : relevant_rules_texts[k] = UsableOnly[i].rule_text
        /\ relevant_rules_texts =
              RelevantRulesTexts(job_post_vector, UsableOnly, num_relevant_rules)
        /\ ret = simulate_rag_retrieval(job_post_vector, UsableOnly, num_relevant_rules)

\* A chunk without a vector, a chunk with an empty vector and a usable chunk
\* last: the usable chunk alone is returned.
C26_Witness ==
    /\ Retrieved
    /\ Len(rulebook_vector_db) = 3
    /\ rulebook_vector_db[1].vector = NoVector
    /\ rulebook_vector_db[2].vector = <<>>
    /\ rulebook_vector_db[1].rule_text = <<"B">>
    /\ rulebook_vector_db[2].rule_text = <<"D">>
    /\ rulebook_vector_db[3] = GoodChunk(<<"F">>)
    /\ num_relevant_rules = 3
    /\ ret = <<"F">>

(***************************************************************************)
(* Claims about the rule chunks as values                                  *)
(***************************************************************************)
\* C27: rule chunks are not changed after they were created:
\* add_mock_vectors_to_chunks leaves the list it is given and every chunk of it
\* as they were and returns new chunks that carry the vector, and the reviews
\* that read rulebook_vector_db leave its length, its order and the title, the
\* text and the vector of each chunk as they were.
C27_ChunksImmutable ==
    [][/\ pc = "vectorize" /\ pc' = "returned" =>
            /\ chunks' = chunks
            /\ \A i \in 1..Len(chunks') :
                  DOMAIN chunks'[i] = {"main_item_title", "rule_text"}
            /\ Len(rulebook_vector_db') = Len(chunks)
            /\ \A i \in 1..Len(chunks) :
                  /\ DOMAIN rulebook_vector_db'[i] = {"main_item_title", "rule_text", "vector"}
                  /\ rulebook_vector_db'[i].main_item_title = chunks[i].main_item_title
                  /\ rulebook_vector_db'[i].rule_text = chunks[i].rule_text
       /\ pc # "idle" /\ pc' = "concurrent" =>
            /\ rulebook_vector_db' = rulebook_vector_db
            /\ chunks' = chunks]_vars

\* Two reviews have read the two chunks that got their vectors before.
C27_Witness ==
    /\ pc = "concurrent"
    /\ Len(chunks) = 2
    /\ chunks[1].rule_text # chunks[2].rule_text
    /\ rulebook_vector_db = <<GoodChunk(chunks[1].rule_text), GoodChunk(chunks[2].rule_text)>>
    /\ \A r \in DOMAIN requests :
          requests[r].pc = "done" /\ Len(requests[r].read_chunks) = 2
    /\ requests[1].posting # requests[2].posting

(***************************************************************************)
(* Claims about the rules block of the prompt                              *)
(***************************************************************************)
\* What simulate_rag_retrieval returned to the running review.
RetrievalResult ==
    IF job_post_vector = NoVector THEN RAG_FAILED_TEXT
    ELSE IF UsableChunks = {} THEN NO_RULE_FOUND_TEXT
    ELSE Join(<<"\n", "\n", "-", "-", "-", "\n", "\n">>, relevant_rules_texts)

\* The text that took the place of {relevant_rules} in the prompt.
RulesBlock ==
    LET i == CHOOSE i \in TemplateFields : REVIEW_PROMPT_TEMPLATE[i].name = "relevant_rules"
    IN  assembled_prompt[i].text

PromptAssembled == Reviewing /\ pc # "idle" /\ raised = "none"

\* C28: the rules block of the prompt is never empty or whitespace-only and
\* never a fallback string of the retrieval: it is the generic notice when the
\* retrieval result is empty, whitespace-only or begins like one of the two
\* fallback strings, and the retrieval result as it is in every other case.
C28_RulesBlock ==
    PromptAssembled =>
        /\ RulesBlock = retrieved_rules_text
        /\ Strip(RulesBlock) # <<>>
        /\ RulesBlock \notin {RAG_FAILED_TEXT, NO_RULE_FOUND_TEXT}
        /\ RulesBlock =
              IF \/ \A k \in 1..Len(RetrievalResult) : RetrievalResult[k] \in Whitespace
                 \/ StartsWith(RetrievalResult, RAG_FAILED_PREFIX)
                 \/ StartsWith(RetrievalResult, NO_RULE_FOUND_PREFIX)
              THEN GENERIC_RULES_NOTICE
              ELSE RetrievalResult

\* A whitespace-only retrieval result was replaced by the generic notice.
C28_Witness ==
    /\ PromptAssembled
    /\ pc = "returned"
    /\ rulebook_vector_db = <<GoodChunk(<<" ">>)>>
    /\ RetrievalResult = <<" ">>
    /\ RulesBlock = GENERIC_RULES_NOTICE

\* The first ten characters of a text, padded with spaces.
FirstTen(s) == Ljust(SubSeq(s, 1, Min(10, Len(s))), 10, " ")

\* The import of get_mock_vector succeeded in the running review.
ImportSucceeded == job_post_vector # [i \in 1..10 |-> 0]

\* The rules the running review would retrieve for the posting p.
RulesFor(p) ==
    RetrievedRulesText(JobPostVector(TextForRag(p), ImportSucceeded), rulebook_vector_db)

\* C29: the retrieved rules, and so the rules block of the prompt, depend on
\* the posting only through the first 10 characters of its text for the
\* vector, padded with spaces: over the same rulebook every posting whose text
\* agrees with the reviewed one on them retrieves the same rule text.
C29_FirstTenCharacters ==
    (PromptAssembled /\ pc = "credentials") =>
        \A p \in RulesPostings :
            FirstTen(TextForRag(p)) = FirstTen(text_for_rag) =>
                /\ RulesFor(p) = retrieved_rules_text
                /\ RulesFor(p) = RulesBlock

\* The reviewed posting retrieved two rules; a posting with other fields agrees
\* with it on the first ten characters, and a posting that differs in them
\* retrieves the rules in the other order.
C29_Witness ==
    /\ PromptAssembled
    /\ pc = "credentials"
    /\ Len(relevant_rules_texts) = 2
    /\ Len(text_for_rag) > 10
    /\ \E p \in RulesPostings :
          /\ TextForRag(p) # text_for_rag
          /\ FirstTen(TextForRag(p)) = FirstTen(text_for_rag)
    /\ \E p \in RulesPostings :
          /\ FirstTen(TextForRag(p)) # FirstTen(text_for_rag)
          /\ RulesFor(p) # retrieved_rules_text

(***************************************************************************)
(* Claims about the /review route                                          *)
(***************************************************************************)
\* C30: after a /review request whose pipeline produced a review text, the
\* ReviewHistory row stored for the request holds that review text.
C30_HistoryKeepsReview ==
    (pc = "review_done" /\ history_entry # NoHistory /\ Truthy(review_output)) =>
        history_entry.review_result_raw = review_output

====
